---- MODULE Spec2Model ----
(***************************************************************************)
(* Chord & key theory engine of worship-setlist:                           *)
(*   backend/app/services/key_transition.py  (key compatibility, key flow) *)
(*   backend/app/services/chord_service.py   (ChordPro parse / transpose)  *)
(*                                                                         *)
(* A Python str is modelled as a sequence of one-character strings, so     *)
(* "F#m" is <<"F", "#", "m">>.  The three Korean tier literals of          *)
(* KeyCompatibility are written NATURAL, OK_TIER and AWKWARD.              *)
(***************************************************************************)
EXTENDS Integers, Sequences, FiniteSets, TLC

VARIABLES
    from_key, to_key, compatibility, pair_pc,
    keys, i, transitions, warnings, worst_compatibility, result, flow_pc,
    content, transposed, restored, parsed, detected, text_pc,
    key_distance, suggestion, validation, extracted, chord_text, chord_parsed,
    pivot_chords, shift_semitones, html, show_chords, plain_text, sections

pair_vars == <<from_key, to_key, compatibility, pair_pc>>
flow_vars == <<keys, i, transitions, warnings, worst_compatibility, result, flow_pc>>
text_vars == <<content, transposed, restored, parsed, detected, text_pc>>
render_vars == <<pivot_chords, shift_semitones, html, show_chords, plain_text, sections>>
other_vars ==
    <<key_distance, suggestion, validation, extracted, chord_text, chord_parsed, render_vars>>
vars == <<pair_vars, flow_vars, text_vars, other_vars>>

(***************************************************************************)
(* Bounds of the model.                                                    *)
(***************************************************************************)
MaxKeys == 3
MaxTransposePieces == 3
MaxChordproPieces == 4
MaxChords == 6
MaxKeyedPieces == 4
MaxValidateLen == 5
MaxExtractPieces == 5
MaxAnyKeyPieces == 2
MaxChordTextPieces == 4
MaxMetaPieces == 3

(***************************************************************************)
(* key_transition.py : tables                                              *)
(***************************************************************************)
NATURAL == "NATURAL"
OK_TIER == "OK"
AWKWARD == "AWKWARD"
\* Python's None among str values: no str, since every element of a str is one character
None == <<"None">>

KEY_SEMITONES ==
    (<<"C">> :> 0) @@ (<<"C", "#">> :> 1) @@ (<<"D", "b">> :> 1) @@
    (<<"D">> :> 2) @@ (<<"D", "#">> :> 3) @@ (<<"E", "b">> :> 3) @@
    (<<"E">> :> 4) @@ (<<"F">> :> 5) @@ (<<"F", "#">> :> 6) @@
    (<<"G", "b">> :> 6) @@ (<<"G">> :> 7) @@ (<<"G", "#">> :> 8) @@
    (<<"A", "b">> :> 8) @@ (<<"A">> :> 9) @@ (<<"A", "#">> :> 10) @@
    (<<"B", "b">> :> 10) @@ (<<"B">> :> 11)

RELATIVE_KEYS ==
    (<<"C">> :> <<"A", "m">>) @@ (<<"G">> :> <<"E", "m">>) @@
    (<<"D">> :> <<"B", "m">>) @@ (<<"A">> :> <<"F", "#", "m">>) @@
    (<<"E">> :> <<"C", "#", "m">>) @@ (<<"B">> :> <<"G", "#", "m">>) @@
    (<<"F", "#">> :> <<"D", "#", "m">>) @@ (<<"G", "b">> :> <<"E", "b", "m">>) @@
    (<<"D", "b">> :> <<"B", "b", "m">>) @@ (<<"A", "b">> :> <<"F", "m">>) @@
    (<<"E", "b">> :> <<"C", "m">>) @@ (<<"B", "b">> :> <<"G", "m">>) @@
    (<<"F">> :> <<"D", "m">>) @@
    (<<"A", "m">> :> <<"C">>) @@ (<<"E", "m">> :> <<"G">>) @@
    (<<"B", "m">> :> <<"D">>) @@ (<<"F", "#", "m">> :> <<"A">>) @@
    (<<"C", "#", "m">> :> <<"E">>) @@ (<<"G", "#", "m">> :> <<"B">>) @@
    (<<"D", "#", "m">> :> <<"F", "#">>) @@ (<<"E", "b", "m">> :> <<"G", "b">>) @@
    (<<"B", "b", "m">> :> <<"D", "b">>) @@ (<<"F", "m">> :> <<"A", "b">>) @@
    (<<"C", "m">> :> <<"E", "b">>) @@ (<<"G", "m">> :> <<"B", "b">>) @@
    (<<"D", "m">> :> <<"F">>)

compatibility_order == (NATURAL :> 0) @@ (OK_TIER :> 1) @@ (AWKWARD :> 2)

(***************************************************************************)
(* key_transition.py : pure functions                                      *)
(***************************************************************************)
\* normalize_key: (base_key, is_minor); is_minor = key.endswith("m")
normalize_key(key) ==
    LET is_minor == Len(key) > 0 /\ key[Len(key)] = "m"
    IN  <<IF is_minor THEN SubSeq(key, 1, Len(key) - 1) ELSE key, is_minor>>

\* get_semitone: KEY_SEMITONES.get(base, 0)
get_semitone(key) ==
    LET base == normalize_key(key)[1]
    IN  IF base \in DOMAIN KEY_SEMITONES THEN KEY_SEMITONES[base] ELSE 0

Abs(n) == IF n < 0 THEN 0 - n ELSE n

Min(a, b) == IF a <= b THEN a ELSE b

\* A plausible slip: the directional interval is returned, not folded at the tritone.
get_key_distance_Directional(a, b) ==
    (get_semitone(b) - get_semitone(a)) % 12

get_key_distance(a, b) ==
    LET from_semi == get_semitone(a)
        to_semi == get_semitone(b)
        distance == Abs(to_semi - from_semi)
    IN  Min(distance, 12 - distance)

\* RELATIVE_KEYS.get(a) == b   (a missing entry gives None, never equal to a str)
RelativeLookupIs(a, b) == a \in DOMAIN RELATIVE_KEYS /\ RELATIVE_KEYS[a] = b

\* A plausible slip: the fourth/fifth rule is lost, so the distance fallback decides.
check_key_compatibility_NoFifthRule(a, b) ==
    LET distance == get_key_distance(a, b)
    IN  IF a = b THEN NATURAL
        ELSE IF RelativeLookupIs(a, b) \/ RelativeLookupIs(b, a) THEN OK_TIER
        ELSE IF distance <= 2 THEN NATURAL
        ELSE IF distance = 3 THEN OK_TIER
        ELSE AWKWARD

\* A plausible slip: only the fifth upwards counts as a fourth/fifth relation.
check_key_compatibility_UpwardFifthOnly(a, b) ==
    LET distance == get_key_distance(a, b)
        from_semi == get_semitone(a)
        to_semi == get_semitone(b)
        interval == (to_semi - from_semi) % 12
    IN  IF a = b THEN NATURAL
        ELSE IF RelativeLookupIs(a, b) \/ RelativeLookupIs(b, a) THEN OK_TIER
        ELSE IF interval = 7 THEN NATURAL
        ELSE IF distance <= 2 THEN NATURAL
        ELSE IF distance = 3 THEN OK_TIER
        ELSE AWKWARD

check_key_compatibility(a, b) ==
    LET distance == get_key_distance(a, b)
        from_semi == get_semitone(a)
        to_semi == get_semitone(b)
        interval == (to_semi - from_semi) % 12
    IN  IF a = b THEN NATURAL
        ELSE IF RelativeLookupIs(a, b) \/ RelativeLookupIs(b, a) THEN OK_TIER
        ELSE IF interval \in {5, 7} THEN NATURAL
        ELSE IF distance <= 2 THEN NATURAL
        ELSE IF distance = 3 THEN OK_TIER
        ELSE AWKWARD

(***************************************************************************)
(* key_transition.py : get_pivot_chords and suggest_bridge_progression.    *)
(* The arrow of the formatted texts (U+2192) is the element "->", and each   *)
(* Korean literal is one element named after what it says.                 *)
(***************************************************************************)
Arrow == <<" ", "->", " ">>

Sus4 == <<"s", "u", "s", "4">>

\* A plausible slip: the chromatic approach is offered first.
get_pivot_chords_ChromaticFirst(a, b) ==
    LET from_base == normalize_key(a)[1]
        to_base == normalize_key(b)[1]
        d == get_key_distance(a, b)
        interval == (get_semitone(b) - get_semitone(a)) % 12
        whole_step == IF d = 2 THEN <<from_base \o Sus4 \o Arrow \o to_base>> ELSE <<>>
        fourth_fifth ==
            IF interval = 5
            THEN <<from_base \o Arrow \o from_base \o <<"7">> \o Arrow \o to_base>>
            ELSE IF interval = 7
            THEN <<from_base \o Arrow \o to_base \o <<"/", "F", "#">> \o Arrow \o to_base>>
            ELSE <<>>
        chromatic == IF d \in {1, 2}
                     THEN <<from_base \o Arrow \o from_base \o Sus4 \o Arrow \o to_base>>
                     ELSE <<>>
        pivot_options == chromatic \o whole_step \o fourth_fifth
    IN  IF pivot_options # <<>> THEN pivot_options ELSE <<from_base \o Arrow \o to_base>>

get_pivot_chords(a, b) ==
    LET from_base == normalize_key(a)[1]
        to_base == normalize_key(b)[1]
        d == get_key_distance(a, b)
        interval == (get_semitone(b) - get_semitone(a)) % 12
        whole_step == IF d = 2 THEN <<from_base \o Sus4 \o Arrow \o to_base>> ELSE <<>>
        fourth_fifth ==
            IF interval = 5
            THEN <<from_base \o Arrow \o from_base \o <<"7">> \o Arrow \o to_base>>
            ELSE IF interval = 7
            THEN <<from_base \o Arrow \o to_base \o <<"/", "F", "#">> \o Arrow \o to_base>>
            ELSE <<>>
        chromatic == IF d \in {1, 2}
                     THEN <<from_base \o Arrow \o from_base \o Sus4 \o Arrow \o to_base>>
                     ELSE <<>>
        pivot_options == whole_step \o fourth_fifth \o chromatic
    IN  IF pivot_options # <<>> THEN pivot_options ELSE <<from_base \o Arrow \o to_base>>

Progression(type, chords, description) ==
    [type |-> type, chords |-> chords, description |-> description]

\* "(N마디 브릿지)": a bridge of N bars
BarBridge(bars) == <<"(", bars, "bar bridge", ")">>

\* "중간 키": an intermediate key
MiddleKey == <<"middle key">>

\* A plausible slip: the OK tier and the AWKWARD tier answer with each other's list.
suggest_bridge_progression_TiersSwapped(a, b) ==
    LET c == check_key_compatibility(a, b)
        progressions ==
            IF c = NATURAL
            THEN IF a = b
                 THEN <<Progression("direct", a \o Arrow \o b, "same key, direct")>>
                 ELSE <<Progression("direct", a \o Arrow \o b, "direct change possible"),
                        Progression("pivot", get_pivot_chords(a, b)[1], "smooth change by pivot chord")>>
            ELSE IF c = AWKWARD
            THEN <<Progression("pivot", get_pivot_chords(a, b)[1], "pivot chord recommended"),
                   Progression("bridge", a \o Arrow \o BarBridge("2") \o Arrow \o b,
                               "instrumental bridge")>>
            ELSE <<Progression("bridge", a \o Arrow \o BarBridge("4") \o Arrow \o b,
                               "long instrumental bridge needed"),
                   Progression("modulation", a \o Arrow \o MiddleKey \o Arrow \o b,
                               "gradual modulation by a middle key")>>
    IN  [compatibility |-> c, distance |-> get_key_distance(a, b), progressions |-> progressions]

suggest_bridge_progression(a, b) ==
    LET c == check_key_compatibility(a, b)
        progressions ==
            IF c = NATURAL
            THEN IF a = b
                 THEN <<Progression("direct", a \o Arrow \o b, "same key, direct")>>
                 ELSE <<Progression("direct", a \o Arrow \o b, "direct change possible"),
                        Progression("pivot", get_pivot_chords(a, b)[1], "smooth change by pivot chord")>>
            ELSE IF c = OK_TIER
            THEN <<Progression("pivot", get_pivot_chords(a, b)[1], "pivot chord recommended"),
                   Progression("bridge", a \o Arrow \o BarBridge("2") \o Arrow \o b,
                               "instrumental bridge")>>
            ELSE <<Progression("bridge", a \o Arrow \o BarBridge("4") \o Arrow \o b,
                               "long instrumental bridge needed"),
                   Progression("modulation", a \o Arrow \o MiddleKey \o Arrow \o b,
                               "gradual modulation by a middle key")>>
    IN  [compatibility |-> c, distance |-> get_key_distance(a, b), progressions |-> progressions]

(***************************************************************************)
(* Inputs: key names.  The 17 spellings of KEY_SEMITONES, each as a major  *)
(* and as a minor key, and names the table does not know.                  *)
(***************************************************************************)
NoteSpellings == DOMAIN KEY_SEMITONES

UnknownKeys == {<<>>, <<"m">>, <<"H">>, <<"H", "m">>, <<"c">>, <<"C", "b">>}

KeyNames == NoteSpellings \cup {Append(n, "m") : n \in NoteSpellings} \cup UnknownKeys

\* Keys of a setlist: a subset that covers every tier and an unknown name.
SetlistKeys ==
    {<<"C">>, <<"G">>, <<"D">>, <<"E">>, <<"E", "b">>, <<"F", "#">>,
     <<"B", "b">>, <<"A", "m">>, <<"H">>}

RECURSIVE SeqsUpTo(_, _)
SeqsUpTo(S, n) ==
    IF n = 0 THEN {<<>>}
    ELSE LET shorter == SeqsUpTo(S, n - 1)
         IN  shorter \cup {Append(s, x) : s \in {t \in shorter : Len(t) = n - 1}, x \in S}

(***************************************************************************)
(* Pairwise specification: one call of check_key_compatibility, of         *)
(* get_key_distance or of suggest_bridge_progression on a pair of keys.    *)
(***************************************************************************)
PairIdle ==
    /\ from_key = <<>> /\ to_key = <<>> /\ compatibility = None /\ pair_pc = "idle"

FlowIdle ==
    /\ keys = <<>> /\ i = 0 /\ transitions = <<>> /\ warnings = <<>>
    /\ worst_compatibility = NATURAL /\ result = None /\ flow_pc = "idle"

TextIdle ==
    /\ content = <<>> /\ transposed = None /\ restored = None
    /\ parsed = None /\ detected = None /\ text_pc = "idle"

\* nothing returned yet by the other operations
RenderIdle ==
    /\ pivot_chords = None /\ shift_semitones = None /\ html = None
    /\ show_chords = TRUE /\ plain_text = None /\ sections = None

OtherIdle ==
    /\ key_distance = None /\ suggestion = None /\ validation = None
    /\ extracted = None /\ chord_text = <<>> /\ chord_parsed = None
    /\ RenderIdle

PairInit ==
    /\ from_key \in KeyNames
    /\ to_key \in KeyNames
    /\ compatibility = None
    /\ pair_pc = "call"
    /\ FlowIdle
    /\ TextIdle
    /\ OtherIdle

CheckKeyCompatibility ==
    /\ pair_pc = "call"
    /\ compatibility' = check_key_compatibility(from_key, to_key)
    /\ pair_pc' = "done"
    /\ UNCHANGED <<from_key, to_key, flow_vars, text_vars, other_vars>>

GetKeyDistance ==
    /\ pair_pc = "call"
    /\ key_distance' = get_key_distance(from_key, to_key)
    /\ pair_pc' = "measured"
    /\ UNCHANGED <<from_key, to_key, compatibility, flow_vars, text_vars,
                   suggestion, validation, extracted, chord_text, chord_parsed,
                   render_vars>>

SuggestBridgeProgression ==
    /\ pair_pc = "call"
    /\ suggestion' = suggest_bridge_progression(from_key, to_key)
    /\ pair_pc' = "suggested"
    /\ UNCHANGED <<from_key, to_key, compatibility, flow_vars, text_vars,
                   key_distance, validation, extracted, chord_text, chord_parsed,
                   render_vars>>

GetPivotChords ==
    /\ pair_pc = "call"
    /\ pivot_chords' = get_pivot_chords(from_key, to_key)
    /\ pair_pc' = "pivoted"
    /\ UNCHANGED <<from_key, to_key, compatibility, flow_vars, text_vars,
                   key_distance, suggestion, validation, extracted, chord_text, chord_parsed,
                   shift_semitones, html, show_chords, plain_text, sections>>

PairNext ==
    \/ CheckKeyCompatibility
    \/ GetKeyDistance
    \/ SuggestBridgeProgression
    \/ GetPivotChords

PairSpec == PairInit /\ [][PairNext]_vars

(***************************************************************************)
(* analyze_setlist_key_flow as a loop over adjacent pairs.                 *)
(***************************************************************************)
\* transitions.append({"from": .., "to": .., "compatibility": ..})
TransitionSwapped(f, t, c) == [from |-> t, to |-> f, compatibility |-> c]

Transition(f, t, c) == [from |-> f, to |-> t, compatibility |-> c]

\* if compatibility_order[c] > compatibility_order[worst]: worst = c
LastTierWins(worst, c) == c

WorseOf(worst, c) ==
    IF compatibility_order[c] > compatibility_order[worst] THEN c ELSE worst

\* f"{i+1}번째 → {i+2}번째 곡: {from_key} → {to_key} ..." : the formatted fields
WarningZeroBased(idx, f, t) ==
    [from_pos |-> idx, to_pos |-> idx + 1, from |-> f, to |-> t]

Warning(idx, f, t) ==
    [from_pos |-> idx + 1, to_pos |-> idx + 2, from |-> f, to |-> t]

FlowInit ==
    /\ keys \in SeqsUpTo(SetlistKeys, MaxKeys)
    /\ i = 0
    /\ transitions = <<>>
    /\ warnings = <<>>
    /\ worst_compatibility = NATURAL
    /\ result = None
    /\ flow_pc = "call"
    /\ PairIdle
    /\ TextIdle
    /\ OtherIdle

\* len(keys) < 2: the early return
FlowReturnShort ==
    /\ flow_pc = "call"
    /\ Len(keys) < 2
    /\ result' = [overall |-> NATURAL, transitions |-> <<>>, warnings |-> <<>>]
    /\ flow_pc' = "done"
    /\ UNCHANGED <<keys, i, transitions, warnings, worst_compatibility, pair_vars, text_vars, other_vars>>

\* lines 208-212: the locals before the loop
FlowEnterLoop ==
    /\ flow_pc = "call"
    /\ Len(keys) >= 2
    /\ transitions' = <<>>
    /\ warnings' = <<>>
    /\ worst_compatibility' = NATURAL
    /\ i' = 0
    /\ flow_pc' = "loop"
    /\ UNCHANGED <<keys, result, pair_vars, text_vars, other_vars>>

\* one iteration of `for i in range(len(keys) - 1)`
FlowStep ==
    /\ flow_pc = "loop"
    /\ i < Len(keys) - 1
    /\ LET f == keys[i + 1]
           t == keys[i + 2]
           c == check_key_compatibility(f, t)
       IN  /\ transitions' = Append(transitions, Transition(f, t, c))
           /\ worst_compatibility' = WorseOf(worst_compatibility, c)
           /\ warnings' = IF c = AWKWARD
                          THEN Append(warnings, Warning(i, f, t))
                          ELSE warnings
    /\ i' = i + 1
    /\ UNCHANGED <<keys, result, flow_pc, pair_vars, text_vars, other_vars>>

FlowReturn ==
    /\ flow_pc = "loop"
    /\ i = Len(keys) - 1
    /\ result' = [overall |-> worst_compatibility,
                  transitions |-> transitions,
                  warnings |-> warnings]
    /\ flow_pc' = "done"
    /\ UNCHANGED <<keys, i, transitions, warnings, worst_compatibility, pair_vars, text_vars, other_vars>>

FlowNext == FlowReturnShort \/ FlowEnterLoop \/ FlowStep \/ FlowReturn

FlowSpec == FlowInit /\ [][FlowNext]_vars

(***************************************************************************)
(* chord_service.py : characters and str methods                           *)
(***************************************************************************)
LowerAlphabet ==
    <<"a", "b", "c", "d", "e", "f", "g", "h", "i", "j", "k", "l", "m",
      "n", "o", "p", "q", "r", "s", "t", "u", "v", "w", "x", "y", "z">>

UpperAlphabet ==
    <<"A", "B", "C", "D", "E", "F", "G", "H", "I", "J", "K", "L", "M",
      "N", "O", "P", "Q", "R", "S", "T", "U", "V", "W", "X", "Y", "Z">>

Digits == {"0", "1", "2", "3", "4", "5", "6", "7", "8", "9"}

\* str.isspace() of one character
Whitespace == {" ", "\n", "\t", "\r"}

\* the regex class \w
WordChars ==
    {LowerAlphabet[k] : k \in 1..26} \cup {UpperAlphabet[k] : k \in 1..26}
        \cup Digits \cup {"_"}

\* the regex class [A-Ga-g]
NoteLetters == {"A", "B", "C", "D", "E", "F", "G", "a", "b", "c", "d", "e", "f", "g"}

upper(c) ==
    IF \E k \in 1..26 : LowerAlphabet[k] = c
    THEN UpperAlphabet[CHOOSE k \in 1..26 : LowerAlphabet[k] = c]
    ELSE c

lower(c) ==
    IF \E k \in 1..26 : UpperAlphabet[k] = c
    THEN LowerAlphabet[CHOOSE k \in 1..26 : UpperAlphabet[k] = c]
    ELSE c

Drop(s, n) == SubSeq(s, n + 1, Len(s))

Take(s, n) == SubSeq(s, 1, n)

\* str.rstrip()
rstrip(s) ==
    LET keep == {n \in 0..Len(s) : \A k \in (n + 1)..Len(s) : s[k] \in Whitespace}
    IN  Take(s, CHOOSE n \in keep : \A m \in keep : n <= m)

\* str.lstrip()
lstrip(s) ==
    LET cut == {n \in 0..Len(s) : \A k \in 1..n : s[k] \in Whitespace}
    IN  Drop(s, CHOOSE n \in cut : \A m \in cut : n >= m)

\* str.strip()
strip(s) == lstrip(rstrip(s))

\* s.find(c, start): the first position >= start holding c, 0 when there is none
Find(s, c, start) ==
    LET hits == {k \in start..Len(s) : s[k] = c}
    IN  IF hits = {} THEN 0 ELSE CHOOSE k \in hits : \A m \in hits : k <= m

\* str.split(sep) for a one-character separator
RECURSIVE split(_, _)
split(s, sep) ==
    LET p == Find(s, sep, 1)
    IN  IF p = 0 THEN <<s>>
        ELSE <<Take(s, p - 1)>> \o split(Drop(s, p), sep)

\* str.replace(c, "")
RECURSIVE remove(_, _)
remove(s, c) ==
    IF s = <<>> THEN <<>>
    ELSE (IF s[1] = c THEN <<>> ELSE <<s[1]>>) \o remove(Tail(s), c)

(***************************************************************************)
(* chord_service.py : tables                                               *)
(***************************************************************************)
CHROMATIC_SHARP ==
    <<<<"C">>, <<"C", "#">>, <<"D">>, <<"D", "#">>, <<"E">>, <<"F">>,
      <<"F", "#">>, <<"G">>, <<"G", "#">>, <<"A">>, <<"A", "#">>, <<"B">>>>

CHROMATIC_FLAT ==
    <<<<"C">>, <<"D", "b">>, <<"D">>, <<"E", "b">>, <<"E">>, <<"F">>,
      <<"G", "b">>, <<"G">>, <<"A", "b">>, <<"A">>, <<"B", "b">>, <<"B">>>>

FLAT_TO_SHARP ==
    (<<"D", "b">> :> <<"C", "#">>) @@ (<<"E", "b">> :> <<"D", "#">>) @@
    (<<"G", "b">> :> <<"F", "#">>) @@ (<<"A", "b">> :> <<"G", "#">>) @@
    (<<"B", "b">> :> <<"A", "#">>)

FLAT_KEYS ==
    {<<"F">>, <<"B", "b">>, <<"E", "b">>, <<"A", "b">>, <<"D", "b">>, <<"G", "b">>,
     <<"D", "m">>, <<"G", "m">>, <<"C", "m">>, <<"F", "m">>,
     <<"B", "b", "m">>, <<"E", "b", "m">>}

(***************************************************************************)
(* chord_service.py : CHORD_PATTERN, an opening bracket, a note letter, an  *)
(* optional accidental, any run of characters other than the closing       *)
(* bracket, and the closing bracket.  A match starts at a "[" that is      *)
(* followed by a note letter and, later, by a "]"; it ends at the first    *)
(* such "]".  The run also takes "[" and newlines.  A match is             *)
(* <<start, end>>, the positions of "[" and "]".                           *)
(***************************************************************************)
ChordMatchStarts(text, pos) ==
    {p \in pos..(Len(text) - 2) :
        /\ text[p] = "["
        /\ text[p + 1] \in NoteLetters
        /\ Find(text, "]", p + 2) # 0}

RECURSIVE CHORD_PATTERN_finditer_from(_, _)
CHORD_PATTERN_finditer_from(text, pos) ==
    LET starts == ChordMatchStarts(text, pos)
    IN  IF starts = {} THEN <<>>
        ELSE LET p == CHOOSE q \in starts : \A r \in starts : q <= r
                 e == Find(text, "]", p + 2)
             IN  <<<<p, e>>>> \o CHORD_PATTERN_finditer_from(text, e + 1)

CHORD_PATTERN_finditer(text) == CHORD_PATTERN_finditer_from(text, 1)

\* match.group(1)
Group1(text, m) == SubSeq(text, m[1] + 1, m[2] - 1)

\* CHORD_PATTERN.findall(text)
CHORD_PATTERN_findall(text) ==
    LET ms == CHORD_PATTERN_finditer(text)
    IN  [k \in 1..Len(ms) |-> Group1(text, ms[k])]

(***************************************************************************)
(* chord_service.py : parse_chord, get_semitone_index, transpose_*         *)
(***************************************************************************)
\* re.match(r'^([A-Ga-g][#b]?)(.*?)$', body): "." takes no newline and "$" also
\* matches just before a final newline.
RootLen(body) ==
    IF Len(body) >= 1 /\ body[1] \in NoteLetters
    THEN (IF Len(body) >= 2 /\ body[2] \in {"#", "b"} THEN 2 ELSE 1)
    ELSE 0

RootMatches(body) ==
    /\ RootLen(body) > 0
    /\ LET rest == Drop(body, RootLen(body))
           nl == Find(rest, "\n", 1)
       IN  nl = 0 \/ nl = Len(rest)

ChordInfo(root, quality, bass) == [root |-> root, quality |-> quality, bass |-> bass]

\* A plausible slip: the fallback takes the first character, upper-cased, as
\* the root and the rest as the quality.
parse_chord_FirstCharRoot(chord_str) ==
    LET stripped == strip(chord_str)
        has_slash == Find(stripped, "/", 1) # 0
        parts == split(stripped, "/")
        body == IF has_slash THEN parts[1] ELSE stripped
        bass == IF has_slash THEN parts[2] ELSE None
    IN  IF RootMatches(body)
        THEN LET n == RootLen(body)
                 rest == Drop(body, n)
                 root == <<upper(body[1])>> \o
                             (IF n = 2 THEN <<lower(body[2])>> ELSE <<>>)
                 quality == IF rest # <<>> /\ rest[Len(rest)] = "\n"
                            THEN Take(rest, Len(rest) - 1) ELSE rest
             IN  ChordInfo(root, quality, bass)
        ELSE IF body = <<>> THEN ChordInfo(body, <<>>, bass)
        ELSE ChordInfo(<<upper(body[1])>>, Tail(body), bass)

\* A plausible slip: the root letter is kept as written.
parse_chord_RootAsWritten(chord_str) ==
    LET stripped == strip(chord_str)
        has_slash == Find(stripped, "/", 1) # 0
        parts == split(stripped, "/")
        body == IF has_slash THEN parts[1] ELSE stripped
        bass == IF has_slash THEN parts[2] ELSE None
    IN  IF RootMatches(body)
        THEN LET n == RootLen(body)
                 rest == Drop(body, n)
                 quality == IF rest # <<>> /\ rest[Len(rest)] = "\n"
                            THEN Take(rest, Len(rest) - 1) ELSE rest
             IN  ChordInfo(Take(body, n), quality, bass)
        ELSE ChordInfo(body, <<>>, bass)

parse_chord(chord_str) ==
    LET stripped == strip(chord_str)
        has_slash == Find(stripped, "/", 1) # 0
        parts == split(stripped, "/")
        body == IF has_slash THEN parts[1] ELSE stripped
        bass == IF has_slash THEN parts[2] ELSE None
    IN  IF RootMatches(body)
        THEN LET n == RootLen(body)
                 rest == Drop(body, n)
                 root == <<upper(body[1])>> \o
                             (IF n = 2 THEN <<lower(body[2])>> ELSE <<>>)
                 quality == IF rest # <<>> /\ rest[Len(rest)] = "\n"
                            THEN Take(rest, Len(rest) - 1) ELSE rest
             IN  ChordInfo(root, quality, bass)
        ELSE ChordInfo(body, <<>>, bass)

\* list.index(x), 0-based; -1 stands for ValueError
IndexOf(table, x) ==
    IF \E k \in 1..Len(table) : table[k] = x
    THEN (CHOOSE k \in 1..Len(table) : table[k] = x) - 1
    ELSE 0 - 1

\* A plausible slip: the ValueError of index() is answered with -1, not with 0.
get_semitone_index_MinusOne(note) ==
    LET s == strip(note)
        two == IF Len(s) > 1 THEN <<upper(s[1]), lower(s[2])>>
               ELSE [k \in 1..Len(s) |-> upper(s[k])]
        sharp == IF two \in DOMAIN FLAT_TO_SHARP THEN FLAT_TO_SHARP[two] ELSE two
    IN  IndexOf(CHROMATIC_SHARP, sharp)

get_semitone_index(note) ==
    LET s == strip(note)
        two == IF Len(s) > 1 THEN <<upper(s[1]), lower(s[2])>>
               ELSE [k \in 1..Len(s) |-> upper(s[k])]
        sharp == IF two \in DOMAIN FLAT_TO_SHARP THEN FLAT_TO_SHARP[two] ELSE two
        idx == IndexOf(CHROMATIC_SHARP, sharp)
    IN  IF idx < 0 THEN 0 ELSE idx

\* A plausible slip: the use_flats argument is ignored.
transpose_note_AlwaysSharp(note, semitones, use_flats) ==
    IF note = <<>> THEN note
    ELSE CHROMATIC_SHARP[((get_semitone_index(note) + semitones) % 12) + 1]

transpose_note(note, semitones, use_flats) ==
    IF note = <<>> THEN note
    ELSE LET new_index == (get_semitone_index(note) + semitones) % 12
         IN  IF use_flats THEN CHROMATIC_FLAT[new_index + 1]
             ELSE CHROMATIC_SHARP[new_index + 1]

\* truthiness of an Optional[str]
Truthy(s) == s # None /\ s # <<>>

transpose_chord(chord_str, semitones, use_flats) ==
    LET chord_info == parse_chord(chord_str)
        new_root == transpose_note(chord_info.root, semitones, use_flats)
        new_bass == IF Truthy(chord_info.bass)
                    THEN transpose_note(chord_info.bass, semitones, use_flats)
                    ELSE None
    IN  new_root \o chord_info.quality \o
            (IF Truthy(new_bass) THEN <<"/">> \o new_bass ELSE <<>>)

\* A plausible slip: the shift is taken from the target back to the source.
calculate_transpose_semitones_Backwards(k1, k2) ==
    LET from_root == strip(remove(k1, "m"))
        to_root == strip(remove(k2, "m"))
    IN  (get_semitone_index(from_root) - get_semitone_index(to_root)) % 12

calculate_transpose_semitones(k1, k2) ==
    LET from_root == strip(remove(k1, "m"))
        to_root == strip(remove(k2, "m"))
    IN  (get_semitone_index(to_root) - get_semitone_index(from_root)) % 12

\* CHORD_PATTERN.sub(replace_chord, content)
RECURSIVE SubChords(_, _, _, _, _)
SubChords(text, ms, last_end, semitones, use_flats) ==
    IF ms = <<>> THEN Drop(text, last_end)
    ELSE LET m == Head(ms)
         IN  SubSeq(text, last_end + 1, m[1] - 1)
                 \o <<"[">> \o transpose_chord(Group1(text, m), semitones, use_flats)
                 \o <<"]">>
                 \o SubChords(text, Tail(ms), m[2], semitones, use_flats)

\* A plausible slip: no early return for a shift of 0.
transpose_chordpro_NoFastPath(text, k1, k2) ==
    SubChords(text, CHORD_PATTERN_finditer(text), 0,
              calculate_transpose_semitones(k1, k2), k2 \in FLAT_KEYS)

transpose_chordpro(text, k1, k2) ==
    LET semitones == calculate_transpose_semitones(k1, k2)
        use_flats == k2 \in FLAT_KEYS
    IN  IF semitones = 0 THEN text
        ELSE SubChords(text, CHORD_PATTERN_finditer(text), 0, semitones, use_flats)

(***************************************************************************)
(* chord_service.py : DIRECTIVE_PATTERN, "{name: value}" or "{name}", and   *)
(* its search in one line.  A match starts at a "{" followed by a run of   *)
(* word characters and then either ":" with a later "}", or "}" at once.   *)
(***************************************************************************)
WordRun(line, p) ==
    LET runs == {k \in 0..(Len(line) - p) : \A j \in 1..k : line[p + j] \in WordChars}
    IN  CHOOSE k \in runs : \A m \in runs : k >= m

DirectiveMatchAt(line, p) ==
    /\ line[p] = "{"
    /\ LET k == WordRun(line, p)
           nxt == p + k + 1
       IN  /\ k >= 1
           /\ nxt <= Len(line)
           /\ \/ line[nxt] = "}"
              \/ line[nxt] = ":" /\ Find(line, "}", nxt + 1) # 0

\* DIRECTIVE_PATTERN.search(line): whether it matches, and the name and value
\* (group(1) or group(3) or "").lower() and group(2) or ""
DIRECTIVE_PATTERN_search(line) ==
    LET starts == {p \in 1..Len(line) : DirectiveMatchAt(line, p)}
    IN  IF starts = {} THEN [found |-> FALSE, directive |-> <<>>, value |-> <<>>]
        ELSE LET p == CHOOSE q \in starts : \A r \in starts : q <= r
                 k == WordRun(line, p)
                 nxt == p + k + 1
                 name == [j \in 1..k |-> lower(line[p + j])]
                 close == Find(line, "}", nxt + 1)
             IN  [found |-> TRUE,
                  directive |-> name,
                  value |-> IF line[nxt] = ":"
                            THEN lstrip(SubSeq(line, nxt + 1, close - 1))
                            ELSE <<>>]

\* int(value): surrounding whitespace, an optional sign, digits, single
\* underscores between digits; anything else raises ValueError
IntBody(value) ==
    LET s == strip(value)
    IN  IF s # <<>> /\ s[1] \in {"+", "-"} THEN Tail(s) ELSE s

IsIntLiteral(value) ==
    LET b == IntBody(value)
    IN  /\ b # <<>>
        /\ \A k \in 1..Len(b) : b[k] \in Digits \cup {"_"}
        /\ b[1] # "_" /\ b[Len(b)] # "_"
        /\ \A k \in 1..(Len(b) - 1) : ~(b[k] = "_" /\ b[k + 1] = "_")

DigitValue(c) ==
    CASE c = "0" -> 0 [] c = "1" -> 1 [] c = "2" -> 2 [] c = "3" -> 3 [] c = "4" -> 4
      [] c = "5" -> 5 [] c = "6" -> 6 [] c = "7" -> 7 [] c = "8" -> 8 [] c = "9" -> 9

RECURSIVE DigitsValue(_)
DigitsValue(ds) ==
    IF ds = <<>> THEN 0
    ELSE 10 * DigitsValue(Take(ds, Len(ds) - 1)) + DigitValue(ds[Len(ds)])

IntValue(value) ==
    LET s == strip(value)
        n == DigitsValue(remove(IntBody(value), "_"))
    IN  IF s[1] = "-" THEN 0 - n ELSE n

(***************************************************************************)
(* chord_service.py : parse_chordpro                                       *)
(***************************************************************************)
Segment(chord, lyric) == [chord |-> chord, lyric |-> lyric]

ParsedLine(segments) == [segments |-> segments]

\* A plausible slip: the text before the first chord of a line is not kept.
AddChord_DropsLeadingLyric(line, segments, last_end, m) ==
    LET lyric_before == SubSeq(line, last_end + 1, m[1] - 1)
        n == Len(segments)
        before == IF segments # <<>>
                  THEN [segments EXCEPT ![n].lyric = @ \o lyric_before]
                  ELSE segments
    IN  Append(before, Segment(Group1(line, m), <<>>))

\* A plausible slip: the first chord of a line always gets a leading segment.
AddChord_AlwaysLeadingSegment(line, segments, last_end, m) ==
    LET lyric_before == SubSeq(line, last_end + 1, m[1] - 1)
        n == Len(segments)
        before == IF segments # <<>>
                  THEN [segments EXCEPT ![n].lyric = @ \o lyric_before]
                  ELSE <<Segment(None, lyric_before)>>
    IN  Append(before, Segment(Group1(line, m), <<>>))

\* lines 207-223: one match of the chord loop of a line
AddChord(line, segments, last_end, m) ==
    LET lyric_before == SubSeq(line, last_end + 1, m[1] - 1)
        n == Len(segments)
        before == IF segments # <<>>
                  THEN [segments EXCEPT ![n].lyric = @ \o lyric_before]
                  ELSE IF lyric_before # <<>>
                  THEN <<Segment(None, lyric_before)>>
                  ELSE segments
    IN  Append(before, Segment(Group1(line, m), <<>>))

RECURSIVE ChordLoop(_, _, _, _)
ChordLoop(line, ms, segments, last_end) ==
    IF ms = <<>> THEN <<segments, last_end>>
    ELSE ChordLoop(line, Tail(ms), AddChord(line, segments, last_end, Head(ms)), Head(ms)[2])

\* lines 203-233: the segments of a line that holds no directive
ParseLine(line) ==
    LET looped == ChordLoop(line, CHORD_PATTERN_finditer(line), <<>>, 0)
        segments == looped[1]
        remaining == Drop(line, looped[2])
        n == Len(segments)
    IN  IF segments # <<>>
        THEN [segments EXCEPT ![n].lyric = @ \o remaining]
        ELSE IF remaining # <<>> THEN <<Segment(None, remaining)>>
        ELSE <<>>

Title == <<"t", "i", "t", "l", "e">>
Artist == <<"a", "r", "t", "i", "s", "t">>
Subtitle == <<"s", "u", "b", "t", "i", "t", "l", "e">>
KeyName == <<"k", "e", "y">>
Tempo == <<"t", "e", "m", "p", "o">>
Bpm == <<"b", "p", "m">>

\* A plausible slip: a tempo that is no integer clears the tempo.
ApplyDirective_BadTempoClears(doc, d) ==
    IF d.directive \in {Title, <<"t">>} THEN [doc EXCEPT !.title = d.value]
    ELSE IF d.directive \in {Artist, Subtitle, <<"s", "t">>} THEN [doc EXCEPT !.artist = d.value]
    ELSE IF d.directive = KeyName THEN [doc EXCEPT !.key = d.value]
    ELSE IF d.directive \in {Tempo, Bpm}
    THEN [doc EXCEPT !.tempo = IF IsIntLiteral(d.value) THEN IntValue(d.value) ELSE None]
    ELSE doc

\* lines 186-201: a directive line updates the metadata only
ApplyDirective(doc, d) ==
    IF d.directive \in {Title, <<"t">>} THEN [doc EXCEPT !.title = d.value]
    ELSE IF d.directive \in {Artist, Subtitle, <<"s", "t">>} THEN [doc EXCEPT !.artist = d.value]
    ELSE IF d.directive = KeyName THEN [doc EXCEPT !.key = d.value]
    ELSE IF d.directive \in {Tempo, Bpm} /\ IsIntLiteral(d.value)
    THEN [doc EXCEPT !.tempo = IntValue(d.value)]
    ELSE doc

\* A plausible slip: the line is scanned for chords before the directive check.
ParseOneLine_ChordsOfDirectiveLines(doc, raw_line) ==
    LET line == rstrip(raw_line)
        d == DIRECTIVE_PATTERN_search(line)
        with_chords == [doc EXCEPT !.raw_chords = @ \o CHORD_PATTERN_findall(line)]
    IN  IF d.found THEN ApplyDirective(with_chords, d)
        ELSE [with_chords EXCEPT !.lines = Append(@, ParsedLine(ParseLine(line)))]

\* lines 181-233: the body of `for line in content.split('\n')`
ParseOneLine(doc, raw_line) ==
    LET line == rstrip(raw_line)
        d == DIRECTIVE_PATTERN_search(line)
    IN  IF d.found THEN ApplyDirective(doc, d)
        ELSE [doc EXCEPT !.lines = Append(@, ParsedLine(ParseLine(line))),
                         !.raw_chords = @ \o CHORD_PATTERN_findall(line)]

RECURSIVE ParseLines(_, _)
ParseLines(doc, ls) ==
    IF ls = <<>> THEN doc ELSE ParseLines(ParseOneLine(doc, Head(ls)), Tail(ls))

parse_chordpro(text) ==
    ParseLines([title |-> None, artist |-> None, key |-> None, tempo |-> None,
                lines |-> <<>>, raw_chords |-> <<>>],
               split(text, "\n"))

(***************************************************************************)
(* chord_service.py : detect_key.  root_counts is a dict: a sequence of    *)
(* <<root, count>> in insertion order.                                     *)
(***************************************************************************)
\* root_counts[root] = root_counts.get(root, 0) + n
Tally(root_counts, root, n) ==
    IF \E k \in 1..Len(root_counts) : root_counts[k][1] = root
    THEN [k \in 1..Len(root_counts) |->
             IF root_counts[k][1] = root
             THEN <<root, root_counts[k][2] + n>> ELSE root_counts[k]]
    ELSE Append(root_counts, <<root, n>>)

RECURSIVE CountRoots(_, _)
CountRoots(root_counts, chords) ==
    IF chords = <<>> THEN root_counts
    ELSE CountRoots(Tally(root_counts, parse_chord(Head(chords)).root, 1), Tail(chords))

\* A plausible slip: max keeps the last of the equal maxima.
MaxKey_LastWins(root_counts) ==
    LET best == {k \in 1..Len(root_counts) :
                    \A j \in 1..Len(root_counts) : root_counts[j][2] <= root_counts[k][2]}
    IN  root_counts[CHOOSE k \in best : \A j \in best : k >= j][1]

\* max(root_counts, key=root_counts.get): the first key, in insertion order,
\* whose count is the greatest
MaxKey(root_counts) ==
    LET best == {k \in 1..Len(root_counts) :
                    \A j \in 1..Len(root_counts) : root_counts[j][2] <= root_counts[k][2]}
    IN  root_counts[CHOOSE k \in best : \A j \in best : k <= j][1]

\* A plausible slip: the key of the metadata is not looked at.
detect_key_IgnoresMetadata(text) ==
    LET doc == parse_chordpro(text)
        chords == doc.raw_chords
    IN  IF chords = <<>> THEN None
        ELSE LET counted == CountRoots(<<>>, chords)
                 weighted == Tally(counted, parse_chord(chords[1]).root, 2)
             IN  MaxKey(weighted)

detect_key(text) ==
    LET doc == parse_chordpro(text)
        chords == doc.raw_chords
    IN  IF Truthy(doc.key) THEN doc.key
        ELSE IF chords = <<>> THEN None
        ELSE LET counted == CountRoots(<<>>, chords)
                 weighted == Tally(counted, parse_chord(chords[1]).root, 2)
             IN  MaxKey(weighted)

(***************************************************************************)
(* Key shift specification: one call of                                    *)
(* calculate_transpose_semitones(from_key, to_key) of chord_service.py or  *)
(* of get_key_distance(from_key, to_key) of key_transition.py on a pair of *)
(* keys.                                                                   *)
(***************************************************************************)
CalculateTransposeSemitones ==
    /\ pair_pc = "call"
    /\ shift_semitones' = calculate_transpose_semitones(from_key, to_key)
    /\ pair_pc' = "shifted"
    /\ UNCHANGED <<from_key, to_key, compatibility, flow_vars, text_vars,
                   key_distance, suggestion, validation, extracted, chord_text, chord_parsed,
                   pivot_chords, html, show_chords, plain_text, sections>>

KeyShiftSpec == PairInit /\ [][CalculateTransposeSemitones \/ GetKeyDistance]_vars

(***************************************************************************)
(* Inputs: ChordPro texts, each the concatenation of a few pieces.         *)
(***************************************************************************)
RECURSIVE Concat(_)
Concat(ss) == IF ss = <<>> THEN <<>> ELSE Head(ss) \o Concat(Tail(ss))

TextsOf(pieces, n) == {Concat(ps) : ps \in SeqsUpTo(pieces, n)}

\* "[G]", "[C#b5]", "[Bbm7/d]", "[e", "]", newline, "la ", "[1]"
TransposePieces ==
    {<<"[", "G", "]">>,
     <<"[", "C", "#", "b", "5", "]">>,
     <<"[", "B", "b", "m", "7", "/", "d", "]">>,
     <<"[", "e">>,
     <<"]">>,
     <<"\n">>,
     <<"l", "a", " ">>,
     <<"[", "1", "]">>}

\* "[G]Test [D]line"
TransposeExample ==
    <<"[", "G", "]", "T", "e", "s", "t", " ", "[", "D", "]", "l", "i", "n", "e">>

\* G, A, Ab, G#, Gm and an unknown name: shifts 0, 1, 2, 10, 11, flat and sharp targets
TransposeKeys ==
    {<<"G">>, <<"A">>, <<"A", "b">>, <<"G", "#">>, <<"G", "m">>, <<"H">>}

\* "[G]", "[Am7]", "[G", "]", "la", " ", newline, "{c}", "{key: D}", "[1]"
ChordproPieces ==
    {<<"[", "G", "]">>,
     <<"[", "A", "m", "7", "]">>,
     <<"[", "G">>,
     <<"]">>,
     <<"l", "a">>,
     <<" ">>,
     <<"\n">>,
     <<"{", "c", "}">>,
     <<"{", "k", "e", "y", ":", " ", "D", "}">>,
     <<"[", "1", "]">>}

\* "[A]", "[B]", "[a7/B]"
ChordPieces ==
    {<<"[", "A", "]">>, <<"[", "B", "]">>, <<"[", "a", "7", "/", "B", "]">>}

\* "[A]", "[b7]", "{key: D}", "{key: }", "{c}", newline
KeyedPieces ==
    {<<"[", "A", "]">>,
     <<"[", "b", "7", "]">>,
     <<"{", "k", "e", "y", ":", " ", "D", "}">>,
     <<"{", "k", "e", "y", ":", " ", "}">>,
     <<"{", "c", "}">>,
     <<"\n">>}

\* the lines "{tempo: 7}", "{tempo: x}", "{bpm: 12 }", "{title: a}", "{st: b}"
\* and "{key: D}", each with its line break; "la"; a line break
MetaPieces ==
    {<<"{", "t", "e", "m", "p", "o", ":", " ", "7", "}", "\n">>,
     <<"{", "t", "e", "m", "p", "o", ":", " ", "x", "}", "\n">>,
     <<"{", "b", "p", "m", ":", " ", "1", "2", " ", "}", "\n">>,
     <<"{", "t", "i", "t", "l", "e", ":", " ", "a", "}", "\n">>,
     <<"{", "s", "t", ":", " ", "b", "}", "\n">>,
     <<"{", "k", "e", "y", ":", " ", "D", "}", "\n">>,
     <<"l", "a">>,
     <<"\n">>}

(***************************************************************************)
(* Transposer specification: transpose_chordpro(content, from_key, to_key) *)
(* and then transpose_chordpro of its result from to_key back to from_key. *)
(***************************************************************************)
TransposeInit ==
    /\ content \in TextsOf(TransposePieces, MaxTransposePieces) \cup {TransposeExample}
    /\ from_key \in TransposeKeys
    /\ to_key \in TransposeKeys
    /\ compatibility = None /\ pair_pc = "idle"
    /\ transposed = None /\ restored = None /\ parsed = None /\ detected = None
    /\ text_pc = "call"
    /\ FlowIdle
    /\ OtherIdle

TransposeChordpro ==
    /\ text_pc = "call"
    /\ transposed' = transpose_chordpro(content, from_key, to_key)
    /\ text_pc' = "transposed"
    /\ UNCHANGED <<content, restored, parsed, detected, pair_vars, flow_vars, other_vars>>

TransposeBack ==
    /\ text_pc = "transposed"
    /\ restored' = transpose_chordpro(transposed, to_key, from_key)
    /\ text_pc' = "restored"
    /\ UNCHANGED <<content, transposed, parsed, detected, pair_vars, flow_vars, other_vars>>

TransposeNext == TransposeChordpro \/ TransposeBack

TransposeSpec == TransposeInit /\ [][TransposeNext]_vars

(***************************************************************************)
(* Key names of every kind: one call of an operation that takes key names, *)
(* on recognized, enharmonic, minor and unknown names.  The transposer     *)
(* runs on short texts and on G, C#, Db, C, Cm, H, Hm and the empty name.  *)
(***************************************************************************)
AnyKeys ==
    {<<"G">>, <<"C", "#">>, <<"D", "b">>, <<"C">>, <<"C", "m">>,
     <<"H">>, <<"H", "m">>, <<>>}

AnyKeyTransposeInit ==
    /\ content \in TextsOf(TransposePieces, MaxAnyKeyPieces) \cup {TransposeExample}
    /\ from_key \in AnyKeys
    /\ to_key \in AnyKeys
    /\ compatibility = None /\ pair_pc = "idle"
    /\ transposed = None /\ restored = None /\ parsed = None /\ detected = None
    /\ text_pc = "call"
    /\ FlowIdle
    /\ OtherIdle

AnyKeyInit == PairInit \/ FlowInit \/ AnyKeyTransposeInit

AnyKeyNext == PairNext \/ FlowNext \/ TransposeNext

AnyKeySpec == AnyKeyInit /\ [][AnyKeyNext]_vars

(***************************************************************************)
(* Parser specification: one call of parse_chordpro(content), on a text of *)
(* chords and lyrics or on a text of metadata directives.                  *)
(***************************************************************************)
ParseInit ==
    /\ content \in TextsOf(ChordproPieces, MaxChordproPieces)
                     \cup TextsOf(MetaPieces, MaxMetaPieces)
    /\ transposed = None /\ restored = None /\ parsed = None /\ detected = None
    /\ text_pc = "call"
    /\ PairIdle
    /\ FlowIdle
    /\ OtherIdle

ParseChordpro ==
    /\ text_pc = "call"
    /\ parsed' = parse_chordpro(content)
    /\ text_pc' = "parsed"
    /\ UNCHANGED <<content, transposed, restored, detected, pair_vars, flow_vars, other_vars>>

ParseNext == ParseChordpro

ParseSpec == ParseInit /\ [][ParseNext]_vars

(***************************************************************************)
(* Key detector specification: one call of detect_key(content) on a text   *)
(* of chords, or on a text of chords, line breaks and directives.          *)
(***************************************************************************)
DetectInit ==
    /\ content \in TextsOf(ChordPieces, MaxChords) \cup TextsOf(KeyedPieces, MaxKeyedPieces)
    /\ transposed = None /\ restored = None /\ parsed = None /\ detected = None
    /\ text_pc = "call"
    /\ PairIdle
    /\ FlowIdle
    /\ OtherIdle

DetectKey ==
    /\ text_pc = "call"
    /\ detected' = detect_key(content)
    /\ text_pc' = "detected"
    /\ UNCHANGED <<content, transposed, restored, parsed, pair_vars, flow_vars, other_vars>>

DetectNext == DetectKey

DetectSpec == DetectInit /\ [][DetectNext]_vars

(***************************************************************************)
(* Claims about check_key_compatibility (PairSpec).                        *)
(***************************************************************************)
DirectionalInterval(a, b) == (get_semitone(b) - get_semitone(a)) % 12

IsRelativePair(a, b) == RelativeLookupIs(a, b) \/ RelativeLookupIs(b, a)

\* C1: check_key_compatibility is the ordered chain: identical strings give
\* NATURAL; else a pair of the relative major/minor table gives OK; else a
\* directional interval of 5 or 7 gives NATURAL; else folded distance 0-2 gives
\* NATURAL, 3 gives OK, 4 or more gives AWKWARD.  In particular folded distance
\* 5 is NATURAL, and folded distances 4 and 6 are AWKWARD.
C1_CompatibilityChain ==
    pair_pc = "done" =>
        LET same == from_key = to_key
            rel == IsRelativePair(from_key, to_key)
            fifth == DirectionalInterval(from_key, to_key) \in {5, 7}
            d == get_key_distance(from_key, to_key)
        IN  /\ same => compatibility = NATURAL
            /\ (~same /\ rel) => compatibility = OK_TIER
            /\ (~same /\ ~rel /\ fifth) => compatibility = NATURAL
            /\ (~same /\ ~rel /\ ~fifth /\ d <= 2) => compatibility = NATURAL
            /\ (~same /\ ~rel /\ ~fifth /\ d = 3) => compatibility = OK_TIER
            /\ (~same /\ ~rel /\ ~fifth /\ d >= 4) => compatibility = AWKWARD
            /\ d = 5 => compatibility = NATURAL
            /\ d \in {4, 6} => compatibility = AWKWARD

\* G -> D: directional interval 7, folded distance 5, classified NATURAL.
C1_Witness ==
    /\ pair_pc = "done"
    /\ from_key = <<"G">> /\ to_key = <<"D">>
    /\ get_key_distance(from_key, to_key) = 5
    /\ compatibility = NATURAL

(***************************************************************************)
(* Claims about analyze_setlist_key_flow (FlowSpec).                       *)
(***************************************************************************)
RECURSIVE MaxTierRank(_)
MaxTierRank(ts) ==
    IF ts = <<>> THEN 0
    ELSE LET r == compatibility_order[ts[Len(ts)].compatibility]
             m == MaxTierRank(SubSeq(ts, 1, Len(ts) - 1))
         IN  IF r > m THEN r ELSE m

\* C5: with at least one adjacent pair, overall is the worst tier among the
\* recorded transitions (NATURAL < OK < AWKWARD); while the pairs are folded the
\* running worst tier is the worst tier of the transitions recorded so far, and
\* it never decreases from one iteration to the next.
C5_OverallIsWorstTier ==
    /\ [](flow_pc \in {"loop", "done"} /\ Len(keys) >= 2 =>
            /\ compatibility_order[worst_compatibility] = MaxTierRank(transitions)
            /\ flow_pc = "done" =>
                   /\ compatibility_order[result.overall] = MaxTierRank(result.transitions)
                   /\ \E k \in 1..Len(result.transitions) :
                          result.transitions[k].compatibility = result.overall)
    /\ [][compatibility_order[worst_compatibility'] >=
              compatibility_order[worst_compatibility]]_vars

\* An AWKWARD pair followed by a NATURAL pair: the worst tier is kept.
C5_Witness ==
    /\ flow_pc = "done"
    /\ Len(result.transitions) = 2
    /\ result.transitions[1].compatibility = AWKWARD
    /\ result.transitions[2].compatibility = NATURAL
    /\ result.overall = AWKWARD

\* C6: for n keys the result holds exactly max(n-1, 0) transitions; the i-th has
\* from = keys[i], to = keys[i+1] and the tier of check_key_compatibility for that
\* pair, in list order; for n < 2 the result is NATURAL with no transitions and
\* no warnings.
C6_TransitionsFollowKeys ==
    flow_pc = "done" =>
        LET n == Len(keys)
            ts == result.transitions
        IN  /\ Len(ts) = (IF n >= 1 THEN n - 1 ELSE 0)
            /\ \A k \in 1..Len(ts) :
                   /\ ts[k].from = keys[k]
                   /\ ts[k].to = keys[k + 1]
                   /\ ts[k].compatibility = check_key_compatibility(keys[k], keys[k + 1])
            /\ n < 2 => /\ result.overall = NATURAL
                        /\ result.transitions = <<>>
                        /\ result.warnings = <<>>

\* Three different keys: two transitions in list order.
C6_Witness ==
    /\ flow_pc = "done"
    /\ Len(keys) = 3
    /\ keys[1] # keys[2] /\ keys[2] # keys[3] /\ keys[1] # keys[3]
    /\ Len(result.transitions) = 2
    /\ result.transitions[2].from = keys[2]
    /\ result.transitions[2].to = keys[3]

AwkwardPositions(ts) == {k \in 1..Len(ts) : ts[k].compatibility = AWKWARD}

\* C7: exactly one warning per AWKWARD adjacent pair and none for another pair,
\* in transition order; the warning of the pair at 0-based index i cites the
\* 1-based positions i+1 and i+2 and the two key names; the number of warnings is
\* the number of AWKWARD transitions, and overall is AWKWARD iff there is a warning.
C7_WarningsMatchAwkwardPairs ==
    flow_pc = "done" =>
        LET ts == result.transitions
            ws == result.warnings
            awk == AwkwardPositions(ts)
        IN  /\ Len(ws) = Cardinality(awk)
            /\ \A j \in 1..Len(ws) :
                   \E k \in awk :
                       /\ Cardinality({m \in awk : m <= k}) = j
                       /\ ws[j].from_pos = k
                       /\ ws[j].to_pos = k + 1
                       /\ ws[j].from = keys[k]
                       /\ ws[j].to = keys[k + 1]
            /\ (result.overall = AWKWARD) <=> (ws # <<>>)

\* ["C", "F#", "Bb"]: two AWKWARD transitions, warnings for 1 -> 2 and 2 -> 3.
C7_Witness ==
    /\ flow_pc = "done"
    /\ keys = <<<<"C">>, <<"F", "#">>, <<"B", "b">>>>
    /\ Len(result.warnings) = 2
    /\ result.warnings[1].from_pos = 1 /\ result.warnings[1].to_pos = 2
    /\ result.warnings[2].from_pos = 2 /\ result.warnings[2].to_pos = 3
    /\ result.overall = AWKWARD

(***************************************************************************)
(* Claims about transpose_chordpro (TransposeSpec).                        *)
(***************************************************************************)
NoBass == 0 - 1

\* For every chord bracket of a text, in order: the pitch class of its root and
\* of its bass (NoBass when the chord has none), as parse_chord and
\* get_semitone_index read them.
ChordPitches(text) ==
    LET chords == CHORD_PATTERN_findall(text)
    IN  [k \in 1..Len(chords) |->
            LET ci == parse_chord(chords[k])
            IN  <<get_semitone_index(ci.root),
                  IF Truthy(ci.bass) THEN get_semitone_index(ci.bass) ELSE NoBass>>]

\* C2: round trip.  Transposing a text from K1 to K2 and the result from K2 back
\* to K1 gives a text in which every chord's root and every chord's bass has the
\* pitch class it has in the original text.
C2_RoundTripKeepsPitchClasses ==
    text_pc = "restored" => ChordPitches(restored) = ChordPitches(content)

CountOf(text, c) == Cardinality({k \in 1..Len(text) : text[k] = c})

\* The text with the contents of every chord bracket taken out: what is left is
\* every character that is not part of a chord's text, brackets included.
RECURSIVE OutsideChords(_, _, _)
OutsideChords(text, ms, last_end) ==
    IF ms = <<>> THEN Drop(text, last_end)
    ELSE SubSeq(text, last_end + 1, Head(ms)[1]) \o <<"]">>
             \o OutsideChords(text, Tail(ms), Head(ms)[2])

NonChordText(text) == OutsideChords(text, CHORD_PATTERN_finditer(text), 0)

\* C3: transpose_chordpro never alters document structure: the output has as
\* many lines as the input, and every character that is not part of a chord's
\* text is unchanged and in the same position relative to the chords.
C3_StructurePreserved ==
    text_pc = "transposed" =>
        /\ CountOf(transposed, "\n") = CountOf(content, "\n")
        /\ NonChordText(transposed) = NonChordText(content)

\* The chord the claim describes for one bracketed chord: the table spelling of
\* (pitch class of the root + shift) mod 12, the quality unchanged, and "/" and
\* the table spelling of (pitch class of the bass + shift) mod 12 when the chord
\* has a bass; the flat table exactly when the target key is a flat key.
ExpectedChord(chord, shift, target) ==
    LET ci == parse_chord(chord)
        table == IF target \in FLAT_KEYS THEN CHROMATIC_FLAT ELSE CHROMATIC_SHARP
        root_pc == (get_semitone_index(ci.root) + shift) % 12
        bass_pc == (get_semitone_index(ci.bass) + shift) % 12
    IN  table[root_pc + 1] \o ci.quality \o
            (IF Truthy(ci.bass) THEN <<"/">> \o table[bass_pc + 1] ELSE <<>>)

\* C4: when the shift from from_key to to_key is not 0, every bracketed chord is
\* replaced by the chord of ExpectedChord, and nothing else changes.
C4_ChordsShiftedAndRespelled ==
    (text_pc = "transposed" /\ calculate_transpose_semitones(from_key, to_key) # 0) =>
        LET shift == calculate_transpose_semitones(from_key, to_key)
            before == CHORD_PATTERN_findall(content)
            after == CHORD_PATTERN_findall(transposed)
        IN  /\ Len(after) = Len(before)
            /\ \A k \in 1..Len(before) : after[k] = ExpectedChord(before[k], shift, to_key)
            /\ NonChordText(transposed) = NonChordText(content)

\* "[G]Test [D]line" from G to A gives "[A]Test [E]line".
C4_Witness ==
    /\ text_pc = "transposed"
    /\ content = TransposeExample
    /\ from_key = <<"G">> /\ to_key = <<"A">>
    /\ transposed =
           <<"[", "A", "]", "T", "e", "s", "t", " ", "[", "E", "]", "l", "i", "n", "e">>

(***************************************************************************)
(* Claims about parse_chordpro (ParseSpec).                                *)
(***************************************************************************)
SourceLines == split(content, "\n")

IsDirectiveLine(line) == DIRECTIVE_PATTERN_search(line).found

\* the source lines that hold no directive, in order
RECURSIVE Keep(_, _)
Keep(ls, directive) ==
    IF ls = <<>> THEN <<>>
    ELSE (IF IsDirectiveLine(Head(ls)) = directive THEN <<Head(ls)>> ELSE <<>>)
             \o Keep(Tail(ls), directive)

ChordLines == Keep(SourceLines, FALSE)

\* '[' + chord + ']' (when the segment has a chord) followed by its lyric
RECURSIVE WriteOut(_)
WriteOut(segments) ==
    IF segments = <<>> THEN <<>>
    ELSE LET seg == Head(segments)
         IN  (IF seg.chord # None THEN <<"[">> \o seg.chord \o <<"]">> ELSE <<>>)
                 \o seg.lyric \o WriteOut(Tail(segments))

\* C8 as stated: writing out the segments of the ParsedLine of a non-directive
\* source line reproduces the line character for character, trailing
\* whitespace included.
C8_ReconstructsSourceLine ==
    text_pc = "parsed" =>
        /\ Len(parsed.lines) = Len(ChordLines)
        /\ \A k \in 1..Len(ChordLines) : WriteOut(parsed.lines[k].segments) = ChordLines[k]

\* C8 amended: writing out the segments of the ParsedLine of a non-directive
\* source line reproduces the line without its trailing whitespace.
C8_ReconstructsRstrippedLine ==
    text_pc = "parsed" =>
        /\ Len(parsed.lines) = Len(ChordLines)
        /\ \A k \in 1..Len(ChordLines) :
               WriteOut(parsed.lines[k].segments) = rstrip(ChordLines[k])

\* A line with text before its first chord and whitespace at its end.
C8_Witness ==
    /\ text_pc = "parsed"
    /\ \E k \in 1..Len(ChordLines) :
           /\ rstrip(ChordLines[k]) # ChordLines[k]
           /\ Len(parsed.lines[k].segments) >= 2
           /\ parsed.lines[k].segments[1].chord = None
           /\ WriteOut(parsed.lines[k].segments) = rstrip(ChordLines[k])

RECURSIVE ChordsOfLines(_)
ChordsOfLines(ls) ==
    IF ls = <<>> THEN <<>>
    ELSE CHORD_PATTERN_findall(Head(ls)) \o ChordsOfLines(Tail(ls))

\* C9 as stated: raw_chords holds every bracketed chord of the document,
\* verbatim, in document order, duplicates kept, whatever line it is on,
\* chords on a line that also holds a directive included.
C9_RawChordsOfEveryLine ==
    text_pc = "parsed" => parsed.raw_chords = ChordsOfLines(SourceLines)

\* C9 amended: raw_chords holds every bracketed chord of the lines that hold no
\* directive, verbatim, in document order, duplicates kept; a line that holds
\* a directive adds no chord.
C9_RawChordsOfChordLines ==
    text_pc = "parsed" => parsed.raw_chords = ChordsOfLines(ChordLines)

\* A chord on a chord line is recorded, a chord on a directive line is not.
C9_Witness ==
    /\ text_pc = "parsed"
    /\ parsed.raw_chords # <<>>
    /\ ChordsOfLines(Keep(SourceLines, TRUE)) # <<>>
    /\ Len(parsed.raw_chords) < Len(ChordsOfLines(SourceLines))

(***************************************************************************)
(* Claims about detect_key (DetectSpec).                                   *)
(***************************************************************************)
\* the roots of the chords of a text, in document order
RootsOf(text) ==
    LET chords == ChordsOfLines(Keep(split(text, "\n"), FALSE))
    IN  [k \in 1..Len(chords) |-> parse_chord(chords[k]).root]

RootSet(roots) == {roots[k] : k \in 1..Len(roots)}

CountIn(roots, r, n) == Cardinality({k \in 1..n : roots[k] = r})

\* one point per chord, and two more for the root of the first chord
Total(roots, r) == CountIn(roots, r, Len(roots)) + (IF roots[1] = r THEN 2 ELSE 0)

TopRoots(roots) ==
    LET totals == [r \in RootSet(roots) |-> Total(roots, r)]
    IN  {r \in RootSet(roots) : \A q \in RootSet(roots) : totals[q] <= totals[r]}

FirstOccurrence(roots, r) ==
    LET at == {k \in 1..Len(roots) : roots[k] = r}
    IN  CHOOSE k \in at : \A j \in at : k <= j

\* The tally of r after t steps in document order, the two extra points of the
\* first chord being added after the last chord, as detect_key adds them ...
TallyBonusLast(roots, r, t) ==
    IF t <= Len(roots) THEN CountIn(roots, r, t) ELSE Total(roots, r)

\* ... or together with the first chord.
TallyBonusFirst(roots, r, t) ==
    CountIn(roots, r, t) + (IF t >= 1 /\ roots[1] = r THEN 2 ELSE 0)

ReachesBonusLast(roots, r) ==
    LET at == {t \in 0..(Len(roots) + 1) : TallyBonusLast(roots, r, t) = Total(roots, r)}
    IN  CHOOSE t \in at : \A u \in at : t <= u

ReachesBonusFirst(roots, r) ==
    LET at == {t \in 0..Len(roots) : TallyBonusFirst(roots, r, t) = Total(roots, r)}
    IN  CHOOSE t \in at : \A u \in at : t <= u

\* detect_key has run on a text with no metadata key and at least one chord
HasChordsNoKey ==
    /\ text_pc = "detected"
    /\ ~Truthy(parse_chordpro(content).key)
    /\ RootsOf(content) # <<>>

\* C10 as stated: the result is a root of the highest total, and among the roots
\* of the highest total it is the one that reaches that total first as the
\* tallies are applied in document order (in either order of adding the two
\* extra points).
C10_FirstToReachMaximum ==
    HasChordsNoKey =>
        LET roots == RootsOf(content)
            top == TopRoots(roots)
        IN  /\ detected \in top
            /\ \/ \A r \in top :
                      ReachesBonusLast(roots, detected) <= ReachesBonusLast(roots, r)
               \/ \A r \in top :
                      ReachesBonusFirst(roots, detected) <= ReachesBonusFirst(roots, r)

\* C10 amended: the result is a root of the highest total (one point per chord,
\* two more for the first chord's root), and among the roots of the highest
\* total it is the one that occurs first in the document.
C10_FirstOccurringMaximum ==
    HasChordsNoKey =>
        LET roots == RootsOf(content)
            top == TopRoots(roots)
        IN  /\ detected \in top
            /\ \A r \in top : FirstOccurrence(roots, detected) <= FirstOccurrence(roots, r)

\* Two roots share the highest total, and the one returned occurs first but
\* reaches the total last.
C10_Witness ==
    /\ HasChordsNoKey
    /\ LET roots == RootsOf(content)
           top == TopRoots(roots)
       IN  /\ Cardinality(top) = 2
           /\ \E r \in top :
                  /\ r # detected
                  /\ FirstOccurrence(roots, detected) < FirstOccurrence(roots, r)
                  /\ ReachesBonusLast(roots, r) < ReachesBonusLast(roots, detected)
                  /\ ReachesBonusFirst(roots, r) < ReachesBonusFirst(roots, detected)

(***************************************************************************)
(* chord_service.py : validate_chordpro.  A warning is a tuple of the      *)
(* message and the values formatted into it.                               *)
(***************************************************************************)
Mismatched == "Mismatched brackets"
EmptyBrackets == "Empty chord brackets found"
InvalidChord == "Invalid chord"

\* content.count(c)
count(text, c) == Cardinality({k \in 1..Len(text) : text[k] = c})

\* '[]' in content
HasEmptyBrackets(text) == \E k \in 1..(Len(text) - 1) : text[k] = "[" /\ text[k + 1] = "]"

\* re.match(r'^[A-Ga-g]', chord)
StartsWithNote(chord) == Len(chord) >= 1 /\ chord[1] \in NoteLetters

\* lines 377-380: one warning for every match whose group does not start with a note letter
RECURSIVE InvalidChordWarnings(_)
InvalidChordWarnings(chords) ==
    IF chords = <<>> THEN <<>>
    ELSE (IF ~StartsWithNote(Head(chords)) THEN <<<<InvalidChord, Head(chords)>>>> ELSE <<>>)
             \o InvalidChordWarnings(Tail(chords))

\* A plausible slip: the empty-bracket warning is repeated for every "[]".
validate_chordpro_WarnsEveryEmpty(text) ==
    LET open_count == count(text, "[")
        close_count == count(text, "]")
        empties == {k \in 1..(Len(text) - 1) : text[k] = "[" /\ text[k + 1] = "]"}
        ws == (IF open_count # close_count
               THEN <<<<Mismatched, open_count, close_count>>>> ELSE <<>>)
              \o [k \in 1..Cardinality(empties) |-> <<EmptyBrackets>>]
              \o InvalidChordWarnings(CHORD_PATTERN_findall(text))
    IN  [is_valid |-> Len(ws) = 0, warnings |-> ws]

validate_chordpro(text) ==
    LET open_count == count(text, "[")
        close_count == count(text, "]")
        ws == (IF open_count # close_count
               THEN <<<<Mismatched, open_count, close_count>>>> ELSE <<>>)
              \o (IF HasEmptyBrackets(text) THEN <<<<EmptyBrackets>>>> ELSE <<>>)
              \o InvalidChordWarnings(CHORD_PATTERN_findall(text))
    IN  [is_valid |-> Len(ws) = 0, warnings |-> ws]

\* the characters a validated text is made of
ValidateChars == {"[", "]", "a", "b", "G", "H", "1"}

(***************************************************************************)
(* Validator specification: one call of validate_chordpro(content).        *)
(***************************************************************************)
ValidateInit ==
    /\ content \in SeqsUpTo(ValidateChars, MaxValidateLen)
    /\ transposed = None /\ restored = None /\ parsed = None /\ detected = None
    /\ text_pc = "call"
    /\ PairIdle
    /\ FlowIdle
    /\ OtherIdle

ValidateChordpro ==
    /\ text_pc = "call"
    /\ validation' = validate_chordpro(content)
    /\ text_pc' = "validated"
    /\ UNCHANGED <<content, transposed, restored, parsed, detected, pair_vars, flow_vars,
                   key_distance, suggestion, extracted, chord_text, chord_parsed,
                   render_vars>>

ValidateNext == ValidateChordpro

ValidateSpec == ValidateInit /\ [][ValidateNext]_vars

(***************************************************************************)
(* chord_service.py : extract_chords                                       *)
(***************************************************************************)
\* lines 248-253: `seen` holds what `unique_chords` holds
RECURSIVE UniqueChords(_, _)
UniqueChords(chords, unique_chords) ==
    IF chords = <<>> THEN unique_chords
    ELSE UniqueChords(Tail(chords),
                      IF \E k \in 1..Len(unique_chords) : unique_chords[k] = Head(chords)
                      THEN unique_chords
                      ELSE Append(unique_chords, Head(chords)))

\* A plausible slip: a chord seen again moves to the end of the list.
RECURSIVE UniqueChords_LastOccurrence(_, _)
UniqueChords_LastOccurrence(chords, unique_chords) ==
    IF chords = <<>> THEN unique_chords
    ELSE UniqueChords_LastOccurrence(
             Tail(chords),
             Append(SelectSeq(unique_chords, LAMBDA c : c # Head(chords)), Head(chords)))

extract_chords_LastOccurrence(text) ==
    UniqueChords_LastOccurrence(CHORD_PATTERN_findall(text), <<>>)

\* A plausible slip: duplicates are kept.
extract_chords_KeepsDuplicates(text) == CHORD_PATTERN_findall(text)

extract_chords(text) == UniqueChords(CHORD_PATTERN_findall(text), <<>>)

\* "[G]", "[D]", "[g", "]", "a", newline
ExtractPieces ==
    {<<"[", "G", "]">>, <<"[", "D", "]">>, <<"[", "g">>, <<"]">>, <<"a">>, <<"\n">>}

\* "[G]a[D]b[G]c"
ExtractExample ==
    <<"[", "G", "]", "a", "[", "D", "]", "b", "[", "G", "]", "c">>

(***************************************************************************)
(* Extractor specification: one call of extract_chords(content).           *)
(***************************************************************************)
ExtractInit ==
    /\ content \in TextsOf(ExtractPieces, MaxExtractPieces) \cup {ExtractExample}
    /\ transposed = None /\ restored = None /\ parsed = None /\ detected = None
    /\ text_pc = "call"
    /\ PairIdle
    /\ FlowIdle
    /\ OtherIdle

ExtractChords ==
    /\ text_pc = "call"
    /\ extracted' = extract_chords(content)
    /\ text_pc' = "extracted"
    /\ UNCHANGED <<content, transposed, restored, parsed, detected, pair_vars, flow_vars,
                   key_distance, suggestion, validation, chord_text, chord_parsed,
                   render_vars>>

ExtractNext == ExtractChords

ExtractSpec == ExtractInit /\ [][ExtractNext]_vars

(***************************************************************************)
(* Chord parser specification: one call of parse_chord(chord_text).        *)
(***************************************************************************)
\* "G", "e", "b", "#", "m7", "/", "/B", " ", newline, "H", "h"
ChordTextPieces ==
    {<<"G">>, <<"e">>, <<"b">>, <<"#">>, <<"m", "7">>, <<"/">>, <<"/", "B">>,
     <<" ">>, <<"\n">>, <<"H">>, <<"h">>}

ChordInit ==
    /\ chord_text \in TextsOf(ChordTextPieces, MaxChordTextPieces)
    /\ chord_parsed = None
    /\ key_distance = None /\ suggestion = None /\ validation = None /\ extracted = None
    /\ RenderIdle
    /\ content = <<>>
    /\ transposed = None /\ restored = None /\ parsed = None /\ detected = None
    /\ text_pc = "call"
    /\ PairIdle
    /\ FlowIdle

ParseChord ==
    /\ text_pc = "call"
    /\ chord_parsed' = parse_chord(chord_text)
    /\ text_pc' = "chord_parsed"
    /\ UNCHANGED <<content, transposed, restored, parsed, detected, pair_vars, flow_vars,
                   key_distance, suggestion, validation, extracted, chord_text,
                   render_vars>>

ChordNext == ParseChord

ChordSpec == ChordInit /\ [][ChordNext]_vars

(***************************************************************************)
(* Claims about the metadata key and detect_key (DetectSpec).              *)
(***************************************************************************)
\* the values of the {key: ...} directives of the lines, in document order
RECURSIVE KeyDirectiveValues(_)
KeyDirectiveValues(ls) ==
    IF ls = <<>> THEN <<>>
    ELSE LET d == DIRECTIVE_PATTERN_search(rstrip(Head(ls)))
         IN  (IF d.found /\ d.directive = KeyName THEN <<d.value>> ELSE <<>>)
                 \o KeyDirectiveValues(Tail(ls))

\* the result is the normalized root of one of the chords
IsRootOfSome(r, chords) == \E k \in 1..Len(chords) : r = parse_chord(chords[k]).root

\* C11 as stated: when the document holds a {key: ...} directive detect_key
\* returns that directive's value whatever the chords; with no key directive and
\* no chord in the document it returns None; with no key directive and at least
\* one chord in the document the result is not None and is the normalized root
\* of some chord of raw_chords.
C11_KeyDirectiveOrChordRoot ==
    text_pc = "detected" =>
        LET ls == split(content, "\n")
            keyvals == KeyDirectiveValues(ls)
            all_chords == ChordsOfLines(ls)
        IN  /\ keyvals # <<>> => detected = keyvals[Len(keyvals)]
            /\ (keyvals = <<>> /\ all_chords = <<>>) => detected = None
            /\ (keyvals = <<>> /\ all_chords # <<>>) =>
                   /\ detected # None
                   /\ IsRootOfSome(detected, parse_chordpro(content).raw_chords)

\* the last key directive of the document has a value that is not empty
HasMetadataKey(text) ==
    LET keyvals == KeyDirectiveValues(split(text, "\n"))
    IN  keyvals # <<>> /\ keyvals[Len(keyvals)] # <<>>

\* C11 amended: when the last {key: ...} directive of the document has a value
\* that is not empty, detect_key returns that value whatever the chords;
\* otherwise, with no chord on a line that holds no directive it returns None,
\* and with at least one such chord the result is not None and is the
\* normalized root of some chord of raw_chords.
C11_NonEmptyKeyOrChordLineRoot ==
    text_pc = "detected" =>
        LET ls == split(content, "\n")
            keyvals == KeyDirectiveValues(ls)
            line_chords == ChordsOfLines(Keep(ls, FALSE))
        IN  /\ HasMetadataKey(content) => detected = keyvals[Len(keyvals)]
            /\ (~HasMetadataKey(content) /\ line_chords = <<>>) => detected = None
            /\ (~HasMetadataKey(content) /\ line_chords # <<>>) =>
                   /\ detected # None
                   /\ IsRootOfSome(detected, parse_chordpro(content).raw_chords)

\* A document with a key directive and a chord of another root on a chord line:
\* the directive's value is returned.
C11_Witness ==
    /\ text_pc = "detected"
    /\ HasMetadataKey(content)
    /\ parse_chordpro(content).raw_chords # <<>>
    /\ detected = <<"D">>
    /\ ~IsRootOfSome(detected, parse_chordpro(content).raw_chords)

(***************************************************************************)
(* Claims about validate_chordpro (ValidateSpec).                          *)
(***************************************************************************)
WarningsOfKind(ws, kind) == {k \in 1..Len(ws) : ws[k][1] = kind}

\* C12: there is a 'Mismatched brackets' warning, carrying the number of "["
\* and the number of "]", if and only if the two numbers differ; the 'Empty
\* chord brackets found' warning is there exactly once if and only if the text
\* contains "[]", however many times; is_valid is true if and only if the list
\* of warnings is empty.
C12_BracketWarnings ==
    text_pc = "validated" =>
        LET ws == validation.warnings
            opens == CountOf(content, "[")
            closes == CountOf(content, "]")
            mism == WarningsOfKind(ws, Mismatched)
            empt == WarningsOfKind(ws, EmptyBrackets)
        IN  /\ Cardinality(mism) = (IF opens # closes THEN 1 ELSE 0)
            /\ \A k \in mism : ws[k] = <<Mismatched, opens, closes>>
            /\ Cardinality(empt) = (IF HasEmptyBrackets(content) THEN 1 ELSE 0)
            /\ validation.is_valid <=> (ws = <<>>)

\* "a[]b": exactly the empty-bracket warning, and is_valid is false.
C12_Witness ==
    /\ text_pc = "validated"
    /\ content = <<"a", "[", "]", "b">>
    /\ validation = [is_valid |-> FALSE, warnings |-> <<<<EmptyBrackets>>>>]

\* the contents of the bracket pairs of a text: from a "[" to the first "]"
\* after it, with no other "[" in between
BracketContents(text) ==
    {SubSeq(text, p + 1, e - 1) :
        <<p, e>> \in {pe \in (1..Len(text)) \X (1..Len(text)) :
                        /\ pe[1] < pe[2]
                        /\ text[pe[1]] = "[" /\ text[pe[2]] = "]"
                        /\ \A j \in (pe[1] + 1)..(pe[2] - 1) : text[j] \notin {"[", "]"}}}

\* C13: for every bracket pair whose contents do not begin with a letter A-G
\* (either case), such as "[H]" or "[1]", there is an 'Invalid chord' warning
\* naming the contents, so is_valid is false for such a text.
C13_InvalidChordsAreNamed ==
    text_pc = "validated" =>
        \A c \in BracketContents(content) :
            (c # <<>> /\ ~StartsWithNote(c)) =>
                /\ \E k \in 1..Len(validation.warnings) :
                       validation.warnings[k] = <<InvalidChord, c>>
                /\ ~validation.is_valid

(***************************************************************************)
(* Claims about get_key_distance and suggest_bridge_progression (PairSpec). *)
(***************************************************************************)
\* C14: get_key_distance(a, b) = get_key_distance(b, a); the value lies in
\* 0..6 and is min(d, 12 - d) for d the absolute difference of the two pitch
\* classes, the minor marker stripped; a key is at distance 0 from itself and
\* the tritone, 6, is the greatest distance.
C14_DistanceSymmetricFolded ==
    pair_pc = "measured" =>
        LET d == Abs(get_semitone(from_key) - get_semitone(to_key))
        IN  /\ key_distance = get_key_distance(to_key, from_key)
            /\ key_distance \in 0..6
            /\ key_distance = Min(d, 12 - d)
            /\ from_key = to_key => key_distance = 0
            /\ d = 6 <=> key_distance = 6

\* A -> C: the pitch classes differ by 9, the distance is 3.
C14_Witness ==
    /\ pair_pc = "measured"
    /\ from_key = <<"A">> /\ to_key = <<"C">>
    /\ Abs(get_semitone(from_key) - get_semitone(to_key)) = 9
    /\ key_distance = 3

Types(progressions) == [k \in 1..Len(progressions) |-> progressions[k].type]

\* the bar count written in the text of a bridge suggestion
BarsOf(chords) == chords[Find(chords, "(", 1) + 1]

\* C16: the answer holds the tier of check_key_compatibility and the distance
\* of get_key_distance; its list is [direct] for NATURAL with identical keys,
\* [direct, pivot] for NATURAL with different keys, [pivot, bridge] with a
\* bridge of 2 bars for OK, [bridge, modulation] with a bridge of 4 bars for
\* AWKWARD; the list is never empty and has one entry only for identical keys.
C16_ProgressionsFollowTier ==
    pair_pc = "suggested" =>
        LET c == suggestion.compatibility
            ps == suggestion.progressions
        IN  /\ c = check_key_compatibility(from_key, to_key)
            /\ suggestion.distance = get_key_distance(from_key, to_key)
            /\ (c = NATURAL /\ from_key = to_key) => Types(ps) = <<"direct">>
            /\ (c = NATURAL /\ from_key # to_key) => Types(ps) = <<"direct", "pivot">>
            /\ c = OK_TIER => Types(ps) = <<"pivot", "bridge">> /\ BarsOf(ps[2].chords) = "2"
            /\ c = AWKWARD =>
                   Types(ps) = <<"bridge", "modulation">> /\ BarsOf(ps[1].chords) = "4"
            /\ ps # <<>>
            /\ Len(ps) = 1 => from_key = to_key

\* C -> Eb, three semitones apart: a pivot and a bridge of 2 bars.
C16_Witness ==
    /\ pair_pc = "suggested"
    /\ from_key = <<"C">> /\ to_key = <<"E", "b">>
    /\ suggestion.compatibility = OK_TIER
    /\ suggestion.distance = 3
    /\ Types(suggestion.progressions) = <<"pivot", "bridge">>
    /\ BarsOf(suggestion.progressions[2].chords) = "2"

(***************************************************************************)
(* Claims about extract_chords (ExtractSpec).                              *)
(***************************************************************************)
FirstIndex(chords, c) ==
    LET at == {k \in 1..Len(chords) : chords[k] = c}
    IN  CHOOSE k \in at : \A j \in at : k <= j

\* C15: extract_chords returns a list with no entry twice, which holds every
\* distinct chord string of the text exactly once, ordered by the position of
\* each chord's first occurrence in the text.
C15_UniqueInFirstOccurrenceOrder ==
    text_pc = "extracted" =>
        LET chords == CHORD_PATTERN_findall(content)
            n == Len(extracted)
        IN  /\ \A j, k \in 1..n : j # k => extracted[j] # extracted[k]
            /\ {extracted[k] : k \in 1..n} = {chords[k] : k \in 1..Len(chords)}
            /\ \A j, k \in 1..n :
                   j < k => FirstIndex(chords, extracted[j]) < FirstIndex(chords, extracted[k])

\* "[G]a[D]b[G]c" gives ["G", "D"].
C15_Witness ==
    /\ text_pc = "extracted"
    /\ content = ExtractExample
    /\ extracted = <<<<"G">>, <<"D">>>>

(***************************************************************************)
(* Claims about key names (AnyKeySpec).                                    *)
(***************************************************************************)
MinorMarked(key) == Len(key) > 0 /\ key[Len(key)] = "m"

\* a key name of key_transition.py is recognized when, its minor marker
\* stripped, it is one of the 17 note spellings
KnownToKeyTransition(key) ==
    (IF MinorMarked(key) THEN Take(key, Len(key) - 1) ELSE key) \in NoteSpellings

\* a key name of chord_service.py is recognized when, its "m"s taken out and
\* stripped, its first two characters (upper case, lower case) are one of the
\* 17 note spellings
KnownToChordService(key) ==
    LET s == strip(remove(key, "m"))
    IN  (IF Len(s) > 1 THEN <<upper(s[1]), lower(s[2])>>
         ELSE [k \in 1..Len(s) |-> upper(s[k])]) \in NoteSpellings

\* the key "C" with the mode marker of the key
CWithMarker(key) == IF MinorMarked(key) THEN <<"C", "m">> ELSE <<"C">>

AsKeyTransitionReads(key) == IF KnownToKeyTransition(key) THEN key ELSE CWithMarker(key)

AsChordServiceReads(key) == IF KnownToChordService(key) THEN key ELSE CWithMarker(key)

\* the kinds of key pairs the shift of which is 0: the same name, two
\* recognized names of one pitch class (enharmonic, or parallel major and
\* minor), two unrecognized names
ZeroShiftKind(a, b) ==
    \/ a = b
    \/ /\ KnownToKeyTransition(a) /\ KnownToKeyTransition(b)
       /\ get_semitone(a) = get_semitone(b)
    \/ ~KnownToChordService(a) /\ ~KnownToChordService(b)

\* C17: whenever the shift computed between from_key and to_key is 0, and so
\* for the same key, for enharmonically equal keys, for a major key and its
\* parallel minor and for two unrecognized keys, transpose_chordpro returns its
\* input text unchanged.
C17_ZeroShiftReturnsInput ==
    (/\ text_pc = "transposed"
     /\ \/ calculate_transpose_semitones(from_key, to_key) = 0
        \/ ZeroShiftKind(from_key, to_key)) =>
        transposed = content

\* C# -> Db on a text with a lower-case bass and a flat root: returned as it is.
C17_Witness ==
    /\ text_pc = "transposed"
    /\ from_key = <<"C", "#">> /\ to_key = <<"D", "b">>
    /\ content = <<"[", "B", "b", "m", "7", "/", "d", "]", "l", "a", " ">>
    /\ transposed = content

\* What C18 says of key_transition.py: the tier, the distance and the tiers
\* of a setlist are those of the names read as "C" with the same mode marker.
UnknownKeyInKeyTransition ==
    /\ pair_pc = "done" =>
           compatibility = check_key_compatibility(AsKeyTransitionReads(from_key),
                                                   AsKeyTransitionReads(to_key))
    /\ pair_pc = "measured" =>
           key_distance = get_key_distance(AsKeyTransitionReads(from_key),
                                           AsKeyTransitionReads(to_key))
    /\ flow_pc = "done" =>
           /\ Len(result.transitions) = (IF Len(keys) >= 1 THEN Len(keys) - 1 ELSE 0)
           /\ \A k \in 1..Len(result.transitions) :
                  result.transitions[k].compatibility =
                      check_key_compatibility(AsKeyTransitionReads(keys[k]),
                                              AsKeyTransitionReads(keys[k + 1]))

\* C18 as stated: a key name that is not a recognized note spelling is given
\* pitch class 0, and check_key_compatibility, get_key_distance,
\* analyze_setlist_key_flow, calculate_transpose_semitones and
\* transpose_chordpro return what they return for the key "C" with the same
\* mode marker.
C18_UnknownKeyActsAsC ==
    /\ UnknownKeyInKeyTransition
    /\ text_pc = "transposed" =>
           /\ calculate_transpose_semitones(from_key, to_key) =
                  calculate_transpose_semitones(AsChordServiceReads(from_key),
                                                AsChordServiceReads(to_key))
           /\ transposed = transpose_chordpro(content, AsChordServiceReads(from_key),
                                              AsChordServiceReads(to_key))

\* C18 amended: the tier, the distance, the tiers of a setlist and the shift
\* are those of the key "C" with the same mode marker, and transpose_chordpro
\* moves every chord by that shift; the chords are spelled from the flat table
\* exactly when the target name as given is a flat key, so with sharps for
\* every unrecognized target.
C18_UnknownKeyShiftsAsC ==
    /\ UnknownKeyInKeyTransition
    /\ text_pc = "transposed" =>
           LET shift == calculate_transpose_semitones(AsChordServiceReads(from_key),
                                                      AsChordServiceReads(to_key))
               before == CHORD_PATTERN_findall(content)
               after == CHORD_PATTERN_findall(transposed)
           IN  /\ calculate_transpose_semitones(from_key, to_key) = shift
               /\ shift = 0 => transposed = content
               /\ shift # 0 =>
                      /\ Len(after) = Len(before)
                      /\ \A k \in 1..Len(before) :
                             after[k] = ExpectedChord(before[k], shift, to_key)
                      /\ NonChordText(transposed) = NonChordText(content)

\* "[Bbm7/d]" from G to the unknown Hm: the shift of G -> Cm, 5, spelled with
\* sharps, where Cm spells with flats.
C18_Witness ==
    /\ text_pc = "transposed"
    /\ from_key = <<"G">> /\ to_key = <<"H", "m">>
    /\ content = <<"[", "B", "b", "m", "7", "/", "d", "]">>
    /\ transposed = <<"[", "D", "#", "m", "7", "/", "G", "]">>
    /\ transpose_chordpro(content, <<"G">>, <<"C", "m">>)
           = <<"[", "E", "b", "m", "7", "/", "G", "]">>

(***************************************************************************)
(* Claims about parse_chord (ChordSpec).                                   *)
(***************************************************************************)
\* the chord body: the input, stripped, up to its first "/"
BodyOf(chord) ==
    LET s == strip(chord)
        slash == Find(s, "/", 1)
    IN  IF slash = 0 THEN s ELSE Take(s, slash - 1)

\* the text after the first "/" of the stripped input
AfterSlash(chord) == Drop(strip(chord), Find(strip(chord), "/", 1))

HasSlash(chord) == Find(chord, "/", 1) # 0

\* parse_chord returns a ChordInfo: a root, a quality and a bass that is a str or None
IsChordInfo(ci) ==
    /\ DOMAIN ci = {"root", "quality", "bass"}
    /\ HasSlash(chord_text) <=> ci.bass # None

\* the input is not empty and does not start with a letter A-G
StartsOffNote(chord) == BodyOf(chord) # <<>> /\ BodyOf(chord)[1] \notin NoteLetters

\* C19 as stated: parse_chord always returns a ChordInfo, and when the input
\* does not start with a letter A-G the root is the first character of the
\* input, upper-cased, and the quality is the rest of the chord body.
C19_RootIsFirstCharacter ==
    text_pc = "chord_parsed" =>
        /\ IsChordInfo(chord_parsed)
        /\ StartsOffNote(chord_text) =>
               /\ chord_parsed.root = <<upper(BodyOf(chord_text)[1])>>
               /\ chord_parsed.quality = Tail(BodyOf(chord_text))

\* C19 amended: parse_chord always returns a ChordInfo, and when the input
\* does not start with a letter A-G the root is the whole chord body as
\* written, and the quality is empty.
C19_RootIsWholeBody ==
    text_pc = "chord_parsed" =>
        /\ IsChordInfo(chord_parsed)
        /\ StartsOffNote(chord_text) =>
               /\ chord_parsed.root = BodyOf(chord_text)
               /\ chord_parsed.quality = <<>>

\* "hm7/B": the root is "hm7", the quality is empty, the bass is "B".
C19_Witness ==
    /\ text_pc = "chord_parsed"
    /\ chord_text = <<"h", "m", "7", "/", "B">>
    /\ chord_parsed = ChordInfo(<<"h", "m", "7">>, <<>>, <<"B">>)

\* what C20 says of a chord string that starts with a letter A-G (the
\* whitespace at its end left aside)
RootQualityBassOf(chord, ci) ==
    LET n == RootLen(chord)
    IN  /\ ci.root = <<upper(chord[1])>> \o SubSeq(chord, 2, n)
        /\ ci.quality = Drop(BodyOf(chord), n)
        /\ HasSlash(chord) => ci.bass = AfterSlash(chord)
        /\ ci.root \o ci.quality \o (IF HasSlash(chord) THEN <<"/">> \o ci.bass ELSE <<>>)
               = <<upper(chord[1])>> \o Tail(chord)

\* C20 as stated: for every chord string that starts with a letter A-G, the
\* root is that letter in upper case and the "#" or "b" that follows it, the
\* quality is everything that remains of the chord body, verbatim, the bass is
\* what follows the "/", and root + quality + "/" + bass is the input up to the
\* case of the root letter.
C20_RootQualityBassReassemble ==
    (text_pc = "chord_parsed" /\ RootLen(chord_text) > 0) =>
        RootQualityBassOf(rstrip(chord_text), chord_parsed)

\* the chord string has no line break in its chord body and at most one "/"
PlainChord(chord) ==
    /\ Find(BodyOf(chord), "\n", 1) = 0
    /\ CountOf(rstrip(chord), "/") <= 1

\* C20 amended: the same, for every chord string that starts with a letter
\* A-G and has no line break in its chord body and at most one "/"; the
\* whitespace at the end of the input is dropped.
C20_PlainChordReassembles ==
    (text_pc = "chord_parsed" /\ RootLen(chord_text) > 0 /\ PlainChord(chord_text)) =>
        RootQualityBassOf(rstrip(chord_text), chord_parsed)

\* "ebm7/B": root "Eb", quality "m7", bass "B".
C20_Witness ==
    /\ text_pc = "chord_parsed"
    /\ chord_text = <<"e", "b", "m", "7", "/", "B">>
    /\ chord_parsed = ChordInfo(<<"E", "b">>, <<"m", "7">>, <<"B">>)

(***************************************************************************)
(* Claims about the lines and the metadata of parse_chordpro (ParseSpec).  *)
(***************************************************************************)
\* the directives of the directive lines, in document order
RECURSIVE DirectivesOf(_)
DirectivesOf(ls) ==
    IF ls = <<>> THEN <<>>
    ELSE LET d == DIRECTIVE_PATTERN_search(rstrip(Head(ls)))
         IN  (IF d.found THEN <<d>> ELSE <<>>) \o DirectivesOf(Tail(ls))

\* the value of the last directive of one of the names, None when there is none
LastValueOf(ds, names) ==
    LET at == {k \in 1..Len(ds) : ds[k].directive \in names}
    IN  IF at = {} THEN None ELSE ds[CHOOSE k \in at : \A j \in at : k >= j].value

\* the integer of the last tempo directive whose value is an integer
LastTempoOf(ds) ==
    LET at == {k \in 1..Len(ds) : ds[k].directive \in {Tempo, Bpm} /\ IsIntLiteral(ds[k].value)}
    IN  IF at = {} THEN None ELSE IntValue(ds[CHOOSE k \in at : \A j \in at : k >= j].value)

\* two tempos are both None or the same integer
SameTempo(a, b) == ToString(a) = ToString(b)

\* C21: parse_chordpro produces exactly one ParsedLine, in order, for every
\* source line that is no directive line and none for a directive line, so
\* len(lines) = source lines - directive lines; a line with no characters
\* gives a ParsedLine with no segments at its position; a directive line only
\* sets title, artist, key or tempo, and a tempo that is no integer leaves the
\* tempo as it was.
C21_OneParsedLinePerChordLine ==
    text_pc = "parsed" =>
        LET ls == split(content, "\n")
            ds == DirectivesOf(ls)
            plain == Keep(ls, FALSE)
        IN  /\ Len(parsed.lines) = Len(ls) - Len(ds)
            /\ Len(parsed.lines) = Len(plain)
            /\ \A k \in 1..Len(plain) :
                   /\ WriteOut(parsed.lines[k].segments) = rstrip(plain[k])
                   /\ plain[k] = <<>> => parsed.lines[k].segments = <<>>
            /\ parsed.title = LastValueOf(ds, {Title, <<"t">>})
            /\ parsed.artist = LastValueOf(ds, {Artist, Subtitle, <<"s", "t">>})
            /\ parsed.key = LastValueOf(ds, {KeyName})
            /\ SameTempo(parsed.tempo, LastTempoOf(ds))

\* "{tempo: 7}", "{tempo: x}" and a last line with no characters: the tempo
\* stays 7 and the only ParsedLine has no segments.
C21_Witness ==
    /\ text_pc = "parsed"
    /\ content = <<"{", "t", "e", "m", "p", "o", ":", " ", "7", "}", "\n",
                   "{", "t", "e", "m", "p", "o", ":", " ", "x", "}", "\n">>
    /\ parsed.tempo = 7
    /\ parsed.lines = <<ParsedLine(<<>>)>>

(***************************************************************************)
(* chord_service.py : chordpro_to_html and _escape_html.                   *)
(***************************************************************************)
MaxHtmlPieces == 3

\* str.replace(c, r) for a one-character c
RECURSIVE replace(_, _, _)
replace(s, c, r) ==
    IF s = <<>> THEN <<>>
    ELSE (IF Head(s) = c THEN r ELSE <<Head(s)>>) \o replace(Tail(s), c, r)

\* '\n'.join(parts) and its other separators
RECURSIVE join(_, _)
join(sep, parts) ==
    IF parts = <<>> THEN <<>>
    ELSE IF Len(parts) = 1 THEN parts[1]
    ELSE parts[1] \o sep \o join(sep, Tail(parts))

_escape_html(s) ==
    replace(replace(replace(replace(replace(s,
        "&", <<"&", "a", "m", "p", ";">>),
        "<", <<"&", "l", "t", ";">>),
        ">", <<"&", "g", "t", ";">>),
        "\"", <<"&", "q", "u", "o", "t", ";">>),
        "'", <<"&", "#", "3", "9", ";">>)

\* <div class="chord-line empty"></div>
EmptyLineElement ==
    <<"<", "d", "i", "v", " ", "c", "l", "a", "s", "s", "=", "\"", "c", "h", "o", "r",
      "d", "-", "l", "i", "n", "e", " ", "e", "m", "p", "t", "y", "\"", ">", "<", "/",
      "d", "i", "v", ">">>

\* <div class="chord-line">
LineOpen ==
    <<"<", "d", "i", "v", " ", "c", "l", "a", "s", "s", "=", "\"", "c", "h", "o", "r",
      "d", "-", "l", "i", "n", "e", "\"", ">">>

\* </div>
LineClose == <<"<", "/", "d", "i", "v", ">">>

\* the default highlight_class
ChordClass == <<"c", "h", "o", "r", "d">>

\* html_parts: one element per segment
RECURSIVE HtmlParts(_, _)
HtmlParts(segments, highlight_class) ==
    IF segments = <<>> THEN <<>>
    ELSE LET \* <span class="chord-segment">
             segment_open ==
                 <<"<", "s", "p", "a", "n", " ", "c", "l", "a", "s", "s", "=", "\"",
                   "c", "h", "o", "r", "d", "-", "s", "e", "g", "m", "e", "n", "t",
                   "\"", ">">>
             \* <span class="
             span_open == <<"<", "s", "p", "a", "n", " ", "c", "l", "a", "s", "s", "=", "\"">>
             \* ">
             quote_close == <<"\"", ">">>
             \* </span>
             span_close == <<"<", "/", "s", "p", "a", "n", ">">>
             \* <span class="lyric">
             lyric_open ==
                 <<"<", "s", "p", "a", "n", " ", "c", "l", "a", "s", "s", "=", "\"",
                   "l", "y", "r", "i", "c", "\"", ">">>
             chord == Head(segments).chord
             lyric == Head(segments).lyric
             part == IF Truthy(chord)
                     THEN segment_open
                          \o span_open \o highlight_class \o quote_close
                          \o _escape_html(chord) \o span_close
                          \o lyric_open \o _escape_html(lyric) \o span_close
                          \o span_close
                     ELSE lyric_open \o _escape_html(lyric) \o span_close
         IN  <<part>> \o HtmlParts(Tail(segments), highlight_class)

RECURSIVE HtmlLines_DropsEmptyLines(_, _)
HtmlLines_DropsEmptyLines(lines, highlight_class) ==
    IF lines = <<>> THEN <<>>
    ELSE (IF Head(lines).segments = <<>>
          THEN <<>>
          ELSE <<LineOpen \o join(<<>>, HtmlParts(Head(lines).segments, highlight_class))
                   \o LineClose>>)
         \o HtmlLines_DropsEmptyLines(Tail(lines), highlight_class)

RECURSIVE HtmlLines(_, _)
HtmlLines(lines, highlight_class) ==
    IF lines = <<>> THEN <<>>
    ELSE (IF Head(lines).segments = <<>>
          THEN <<EmptyLineElement>>
          ELSE <<LineOpen \o join(<<>>, HtmlParts(Head(lines).segments, highlight_class))
                   \o LineClose>>)
         \o HtmlLines(Tail(lines), highlight_class)

chordpro_to_html(text, highlight_class) ==
    join(<<"\n">>, HtmlLines(parse_chordpro(text).lines, highlight_class))

\* "[G]", "[Am7]", "la", "<&", " ", newline, "{c}"
HtmlPieces ==
    {<<"[", "G", "]">>,
     <<"[", "A", "m", "7", "]">>,
     <<"l", "a">>,
     <<"<", "&">>,
     <<" ">>,
     <<"\n">>,
     <<"{", "c", "}">>}

(***************************************************************************)
(* HTML renderer specification: one call of chordpro_to_html(content).     *)
(***************************************************************************)
HtmlInit ==
    /\ content \in TextsOf(HtmlPieces, MaxHtmlPieces)
    /\ transposed = None /\ restored = None /\ parsed = None /\ detected = None
    /\ text_pc = "call"
    /\ PairIdle
    /\ FlowIdle
    /\ OtherIdle

ChordproToHtml ==
    /\ text_pc = "call"
    /\ html' = chordpro_to_html(content, ChordClass)
    /\ text_pc' = "rendered"
    /\ UNCHANGED <<content, transposed, restored, parsed, detected, pair_vars, flow_vars,
                   key_distance, suggestion, validation, extracted, chord_text, chord_parsed,
                   pivot_chords, shift_semitones, show_chords, plain_text, sections>>

HtmlSpec == HtmlInit /\ [][ChordproToHtml]_vars

(***************************************************************************)
(* C22: line elements of chordpro_to_html.                                 *)
(***************************************************************************)
\* the line elements of the returned HTML, which are joined by line breaks
RenderedLines == IF html = <<>> THEN <<>> ELSE split(html, "\n")

\* C22: chordpro_to_html emits exactly one line element per ParsedLine of the
\* parsed document, in the same order: the element of a ParsedLine without
\* segments is the empty placeholder, the element of any other ParsedLine holds
\* the chord and lyric elements of its segments in segment order, and the
\* rendered lines are as many as the source lines that are not directive lines.
C22_OneElementPerParsedLine ==
    text_pc = "rendered" =>
        LET doc == parse_chordpro(content)
            els == RenderedLines
            plain == Keep(split(content, "\n"), FALSE)
        IN  /\ Len(els) = Len(doc.lines)
            /\ Len(els) = Len(plain)
            /\ \A k \in 1..Len(els) :
                   /\ rstrip(plain[k]) = <<>> <=> els[k] = EmptyLineElement
                   /\ doc.lines[k].segments = <<>> <=> els[k] = EmptyLineElement
                   /\ doc.lines[k].segments # <<>> =>
                          els[k] = LineOpen
                                   \o Concat(HtmlParts(doc.lines[k].segments, ChordClass))
                                   \o LineClose

\* an empty line, then "[G]<&": the placeholder comes first and the second
\* element holds the chord G and the escaped lyric
C22_Witness ==
    /\ text_pc = "rendered"
    /\ content = <<"\n", "[", "G", "]", "<", "&">>
    /\ RenderedLines =
           <<EmptyLineElement,
             <<"<", "d", "i", "v", " ", "c", "l", "a", "s", "s", "=", "\"", "c", "h",
               "o", "r", "d", "-", "l", "i", "n", "e", "\"", ">", "<", "s", "p", "a",
               "n", " ", "c", "l", "a", "s", "s", "=", "\"", "c", "h", "o", "r", "d",
               "-", "s", "e", "g", "m", "e", "n", "t", "\"", ">", "<", "s", "p", "a",
               "n", " ", "c", "l", "a", "s", "s", "=", "\"", "c", "h", "o", "r", "d",
               "\"", ">", "G", "<", "/", "s", "p", "a", "n", ">", "<", "s", "p", "a",
               "n", " ", "c", "l", "a", "s", "s", "=", "\"", "l", "y", "r", "i", "c",
               "\"", ">", "&", "l", "t", ";", "&", "a", "m", "p", ";", "<", "/", "s",
               "p", "a", "n", ">", "<", "/", "s", "p", "a", "n", ">", "<", "/", "d",
               "i", "v", ">">>>>

(***************************************************************************)
(* chord_service.py : chordpro_to_text.                                    *)
(***************************************************************************)
MaxTextPieces == 4

\* the loop over line.segments in chords-visible mode: chord_line and
\* lyric_line are kept joined
RECURSIVE ChordAndLyricRows(_, _, _, _)
ChordAndLyricRows(segments, chord_line, lyric_line, position) ==
    IF segments = <<>>
    THEN [chord_str |-> chord_line, lyric_str |-> lyric_line]
    ELSE LET seg == Head(segments)
             padded == IF Len(chord_line) < position
                       THEN chord_line \o [k \in 1..(position - Len(chord_line)) |-> " "]
                       ELSE chord_line
         IN  ChordAndLyricRows(Tail(segments),
                               IF Truthy(seg.chord) THEN padded \o seg.chord ELSE chord_line,
                               lyric_line \o seg.lyric,
                               position + Len(seg.lyric))

RECURSIVE LyricParts(_)
LyricParts(segments) ==
    IF segments = <<>> THEN <<>>
    ELSE <<Head(segments).lyric>> \o LyricParts(Tail(segments))

\* text_lines: a ParsedLine adds one entry, or a chord row and a lyric row
RECURSIVE TextLines(_, _)
TextLines(lines, show) ==
    IF lines = <<>> THEN <<>>
    ELSE LET segments == Head(lines).segments
             rows == ChordAndLyricRows(segments, <<>>, <<>>, 0)
             added == IF segments = <<>> THEN <<<<>>>>
                      ELSE IF show
                      THEN (IF strip(rows.chord_str) # <<>> THEN <<rows.chord_str>> ELSE <<>>)
                           \o (IF strip(rows.lyric_str) # <<>>
                               THEN <<rows.lyric_str>> ELSE <<>>)
                      ELSE <<join(<<>>, LyricParts(segments))>>
         IN  added \o TextLines(Tail(lines), show)

chordpro_to_text(text, show) ==
    join(<<"\n">>, TextLines(parse_chordpro(text).lines, show))

\* "[G]", "[Am7]", "a", "la ", " ", newline, "{c}"
TextPieces ==
    {<<"[", "G", "]">>,
     <<"[", "A", "m", "7", "]">>,
     <<"a">>,
     <<"l", "a", " ">>,
     <<" ">>,
     <<"\n">>,
     <<"{", "c", "}">>}

(***************************************************************************)
(* Text renderer specification: one call of                                *)
(* chordpro_to_text(content, show_chords).                                 *)
(***************************************************************************)
TextInit ==
    /\ content \in TextsOf(TextPieces, MaxTextPieces)
    /\ show_chords \in BOOLEAN
    /\ plain_text = None
    /\ pivot_chords = None /\ shift_semitones = None /\ html = None /\ sections = None
    /\ key_distance = None /\ suggestion = None /\ validation = None
    /\ extracted = None /\ chord_text = <<>> /\ chord_parsed = None
    /\ transposed = None /\ restored = None /\ parsed = None /\ detected = None
    /\ text_pc = "call"
    /\ PairIdle
    /\ FlowIdle

ChordproToText ==
    /\ text_pc = "call"
    /\ plain_text' = chordpro_to_text(content, show_chords)
    /\ text_pc' = "written"
    /\ UNCHANGED <<content, transposed, restored, parsed, detected, pair_vars, flow_vars,
                   key_distance, suggestion, validation, extracted, chord_text, chord_parsed,
                   pivot_chords, shift_semitones, html, show_chords, sections>>

TextSpec == TextInit /\ [][ChordproToText]_vars

(***************************************************************************)
(* C23: chord columns of chordpro_to_text.                                 *)
(***************************************************************************)
\* the rows of the returned text
TextRows == split(plain_text, "\n")

HasChord(segments) == \E j \in 1..Len(segments) : Truthy(segments[j].chord)

\* number of rows a ParsedLine takes in chords-visible mode
RowsOfLine(line) ==
    IF line.segments = <<>> THEN 1
    ELSE (IF HasChord(line.segments) THEN 1 ELSE 0)
         + (IF strip(Concat(LyricParts(line.segments))) # <<>> THEN 1 ELSE 0)

RECURSIVE RowsBefore(_, _)
RowsBefore(lines, k) == IF k = 1 THEN 0 ELSE RowsBefore(lines, k - 1) + RowsOfLine(lines[k - 1])

\* total length of the lyric text before segment j of a line
LyricBefore(segments, j) == Len(Concat(LyricParts(Take(segments, j - 1))))

\* C23: in chords-visible mode every chord of a line stands in the chord row
\* at the column equal to the total length of the lyric text that precedes
\* the chord on the line, also where a chord name is longer than the lyric
\* fragment that follows it.
C23_ChordsAtLyricOffsets ==
    (text_pc = "written" /\ show_chords) =>
        LET lines == parse_chordpro(content).lines
            rows == TextRows
        IN  \A k \in 1..Len(lines) :
                HasChord(lines[k].segments) =>
                    LET row == rows[RowsBefore(lines, k) + 1]
                        segs == lines[k].segments
                    IN  \A j \in 1..Len(segs) :
                            Truthy(segs[j].chord) =>
                                LET col == LyricBefore(segs, j)
                                IN  /\ Len(row) >= col + Len(segs[j].chord)
                                    /\ SubSeq(row, col + 1, col + Len(segs[j].chord))
                                           = segs[j].chord

(***************************************************************************)
(* export_service.py : chordpro_to_sections.                               *)
(***************************************************************************)
MaxSectionPieces == 4

\* {comment:
CommentOpen == <<"{", "c", "o", "m", "m", "e", "n", "t", ":">>

\* Verse
Verse == <<"V", "e", "r", "s", "e">>

\* number of whitespace characters s starts with
RECURSIVE WhitespacePrefix(_)
WhitespacePrefix(s) ==
    IF s # <<>> /\ Head(s) \in Whitespace THEN 1 + WhitespacePrefix(Tail(s)) ELSE 0

\* what follows "{comment:" is matched by \s*(.+?)\} : the whitespace run is
\* taken whole if a "}" follows at least one more character, and gives back
\* its last character if the "}" comes right after it
LabelMatch(rest) ==
    LET w == WhitespacePrefix(rest)
        e == Find(rest, "}", w + 2)
    IN  IF e # 0 THEN [found |-> TRUE, label |-> SubSeq(rest, w + 1, e - 1)]
        ELSE IF w >= 1 /\ Len(rest) > w /\ rest[w + 1] = "}"
             THEN [found |-> TRUE, label |-> <<rest[w]>>]
             ELSE [found |-> FALSE, label |-> None]

\* re.match(r'\{comment:\s*(.+?)\}', line, re.IGNORECASE)
comment_match(line) ==
    IF /\ Len(line) >= Len(CommentOpen)
       /\ [k \in 1..Len(CommentOpen) |-> lower(line[k])] = CommentOpen
    THEN LabelMatch(Drop(line, Len(CommentOpen)))
    ELSE [found |-> FALSE, label |-> None]

Section(section, lines) == [section |-> section, content |-> join(<<"\n">>, lines)]

SaveSection_AlwaysSaves(saved, current_section, current_lines) ==
    Append(saved, Section(current_section, current_lines))

\* sections.append(...) if current_lines
SaveSection(saved, current_section, current_lines) ==
    IF current_lines # <<>>
    THEN Append(saved, Section(current_section, current_lines))
    ELSE saved

RECURSIVE SectionLoop(_, _, _, _)
SectionLoop(ls, saved, current_section, current_lines) ==
    IF ls = <<>> THEN SaveSection(saved, current_section, current_lines)
    ELSE LET line == Head(ls)
             m == comment_match(line)
         IN  IF m.found
             THEN SectionLoop(Tail(ls), SaveSection(saved, current_section, current_lines),
                              m.label, <<>>)
             ELSE IF strip(line) # <<>> /\ Head(strip(line)) = "{"
                  THEN SectionLoop(Tail(ls), saved, current_section, current_lines)
                  ELSE IF strip(line) # <<>>
                       THEN SectionLoop(Tail(ls), saved, current_section,
                                        Append(current_lines, line))
                       ELSE SectionLoop(Tail(ls), saved, current_section, current_lines)

chordpro_to_sections(chordpro) == SectionLoop(split(chordpro, "\n"), <<>>, Verse, <<>>)

\* "{comment: A}", "{COMMENT:B}", "{key: D}", "[G]la", "la", " ", newline
SectionPieces ==
    {<<"{", "c", "o", "m", "m", "e", "n", "t", ":", " ", "A", "}">>,
     <<"{", "C", "O", "M", "M", "E", "N", "T", ":", "B", "}">>,
     <<"{", "k", "e", "y", ":", " ", "D", "}">>,
     <<"[", "G", "]", "l", "a">>,
     <<"l", "a">>,
     <<" ">>,
     <<"\n">>}

(***************************************************************************)
(* Section renderer specification: one call of                             *)
(* chordpro_to_sections(content).                                          *)
(***************************************************************************)
SectionInit ==
    /\ content \in TextsOf(SectionPieces, MaxSectionPieces)
    /\ transposed = None /\ restored = None /\ parsed = None /\ detected = None
    /\ text_pc = "call"
    /\ PairIdle
    /\ FlowIdle
    /\ OtherIdle

ChordproToSections ==
    /\ text_pc = "call"
    /\ sections' = chordpro_to_sections(content)
    /\ text_pc' = "sectioned"
    /\ UNCHANGED <<content, transposed, restored, parsed, detected, pair_vars, flow_vars,
                   key_distance, suggestion, validation, extracted, chord_text, chord_parsed,
                   pivot_chords, shift_semitones, html, show_chords, plain_text>>

SectionSpec == SectionInit /\ [][ChordproToSections]_vars

(***************************************************************************)
(* C24: sections of chordpro_to_sections.                                  *)
(***************************************************************************)
IsMarker(line) == comment_match(line).found

\* a line that is not a marker and whose first non-blank character is "{"
IsOtherDirective(line) == ~IsMarker(line) /\ strip(line) # <<>> /\ Head(strip(line)) = "{"

IsBlank(line) == strip(line) = <<>>

\* the index of the nearest marker before line k, 0 when there is none
OwnerOf(ls, k) ==
    LET ms == {m \in 1..(k - 1) : IsMarker(ls[m])}
    IN  IF ms = {} THEN 0 ELSE CHOOSE m \in ms : \A n \in ms : n <= m

LabelOfOwner(ls, o) == IF o = 0 THEN Verse ELSE comment_match(ls[o]).label

RECURSIVE Ascending(_)
Ascending(S) ==
    IF S = {} THEN <<>>
    ELSE LET m == CHOOSE x \in S : \A y \in S : x <= y
         IN  <<m>> \o Ascending(S \ {m})

\* the sections made of the lines whose indexes are in members: one section
\* per marker (or per implicit "Verse") that owns a member, in source order
SectionsOf(ls, members) ==
    LET owners == Ascending({OwnerOf(ls, k) : k \in members})
    IN  [n \in 1..Len(owners) |->
            LET own == Ascending({k \in members : OwnerOf(ls, k) = owners[n]})
            IN  [section |-> LabelOfOwner(ls, owners[n]),
                 content |-> join(<<"\n">>, [j \in 1..Len(own) |-> ls[own[j]]])]]

\* C24: chordpro_to_sections returns the sections in source order: every
\* line before the first {comment: <label>} marker belongs to the implicit
\* section "Verse", every later line to the section of the nearest marker
\* before it, with that marker's label; a section's content is the original
\* text of its lines joined by line breaks, no other directive line is in any
\* content, and empty input gives the empty list.
C24_EveryLineInItsSection ==
    text_pc = "sectioned" =>
        LET ls == split(content, "\n")
        IN  sections =
                IF content = <<>> THEN <<>>
                ELSE SectionsOf(ls, {k \in 1..Len(ls) :
                                        ~IsMarker(ls[k]) /\ ~IsOtherDirective(ls[k])})

\* C24, amended: as above for the lines that are not blank; a blank line
\* belongs to no section and a marker followed by no such line gives no
\* section.
C24_NonBlankLinesInTheirSection ==
    text_pc = "sectioned" =>
        LET ls == split(content, "\n")
        IN  sections =
                SectionsOf(ls, {k \in 1..Len(ls) :
                                   /\ ~IsMarker(ls[k])
                                   /\ ~IsOtherDirective(ls[k])
                                   /\ ~IsBlank(ls[k])})

\* a blank line, the marker "{comment: A}" and the line "la": the one section
\* is A with content "la"
C24_Witness ==
    /\ text_pc = "sectioned"
    /\ content = <<"\n", "{", "c", "o", "m", "m", "e", "n", "t", ":", " ", "A", "}", "\n",
                   "l", "a">>
    /\ sections = <<[section |-> <<"A">>, content |-> <<"l", "a">>]>>

(***************************************************************************)
(* C25: wording of the pivot suggestion.                                   *)
(***************************************************************************)
WithoutMinorMarker(key) == IF MinorMarked(key) THEN Take(key, Len(key) - 1) ELSE key

\* the pivot wording for the directional interval iv, from and to being the
\* key names without their minor marker
PivotWording(from, to, iv) ==
    IF iv \in {2, 10} THEN from \o Sus4 \o Arrow \o to
    ELSE IF iv = 5 THEN from \o Arrow \o from \o <<"7">> \o Arrow \o to
    ELSE IF iv = 7 THEN from \o Arrow \o to \o <<"/", "F", "#">> \o Arrow \o to
    ELSE IF iv \in {1, 11} THEN from \o Arrow \o from \o Sus4 \o Arrow \o to
    ELSE from \o Arrow \o to

ChromaticWording(from, to) == from \o Arrow \o from \o Sus4 \o Arrow \o to

TierOfDistance(d) ==
    IF d \in {0, 1, 2, 5} THEN NATURAL
    ELSE IF d = 3 THEN OK_TIER
    ELSE AWKWARD

\* C26: for two different key strings check_key_compatibility depends only on
\* their folded distance (0, 1, 2 or 5 is NATURAL, 3 is OK, 4 or 6 is AWKWARD)
\* and is symmetric; every pair of the relative major/minor table has folded
\* distance 3 and the table is its own inverse, so the relative rule never
\* changes a result.
C26_TierFollowsFoldedDistance ==
    /\ pair_pc = "done" =>
           /\ from_key # to_key =>
                  compatibility = TierOfDistance(get_key_distance(from_key, to_key))
           /\ compatibility = check_key_compatibility(to_key, from_key)
           /\ IsRelativePair(from_key, to_key) =>
                  /\ get_key_distance(from_key, to_key) = 3
                  /\ RelativeLookupIs(from_key, to_key)
                  /\ RelativeLookupIs(to_key, from_key)
    /\ \A k \in DOMAIN RELATIVE_KEYS :
           /\ get_key_distance(k, RELATIVE_KEYS[k]) = 3
           /\ RELATIVE_KEYS[k] \in DOMAIN RELATIVE_KEYS
           /\ RELATIVE_KEYS[RELATIVE_KEYS[k]] = k

\* from C to its relative minor Am: folded distance 3, OK in both directions
C26_Witness ==
    /\ pair_pc = "done"
    /\ from_key = <<"C">>
    /\ to_key = <<"A", "m">>
    /\ IsRelativePair(from_key, to_key)
    /\ get_key_distance(from_key, to_key) = 3
    /\ compatibility = OK_TIER

(***************************************************************************)
(* C27: the two components agree on pitch classes.                         *)
(***************************************************************************)
\* the 17 note spellings of KEY_SEMITONES, each with and without a trailing "m"
SpelledKeys == NoteSpellings \cup {Append(n, "m") : n \in NoteSpellings}

\* the pitch class calculate_transpose_semitones uses for a key
PitchClassInChordService(key) == get_semitone_index(strip(remove(key, "m")))

\* C27: for every key name made of one of the 17 note spellings of
\* KEY_SEMITONES, with or without a trailing "m", the pitch class that
\* calculate_transpose_semitones uses equals get_semitone of the same name;
\* so the shift s lies in 0..11, is (to_pc - from_pc) mod 12, and
\* min(s, 12 - s) is get_key_distance.  Looking up the i-th entry of the sharp
\* table or of the flat table gives i, for every i in 0..11.
C27_ComponentsAgreeOnPitchClasses ==
    /\ \A key \in SpelledKeys : PitchClassInChordService(key) = get_semitone(key)
    /\ (pair_pc = "shifted" /\ from_key \in SpelledKeys /\ to_key \in SpelledKeys) =>
           /\ shift_semitones \in 0..11
           /\ shift_semitones = (get_semitone(to_key) - get_semitone(from_key)) % 12
           /\ Min(shift_semitones, 12 - shift_semitones)
                  = get_key_distance(from_key, to_key)
    /\ (pair_pc = "measured" /\ from_key \in SpelledKeys /\ to_key \in SpelledKeys) =>
           LET s == calculate_transpose_semitones(from_key, to_key)
           IN  key_distance = Min(s, 12 - s)
    /\ \A n \in 0..11 :
           /\ get_semitone_index(CHROMATIC_SHARP[n + 1]) = n
           /\ get_semitone_index(CHROMATIC_FLAT[n + 1]) = n

\* from Ebm to F#: pitch classes 3 and 6, shift 3
C27_Witness ==
    /\ pair_pc = "shifted"
    /\ from_key = <<"E", "b", "m">>
    /\ to_key = <<"F", "#">>
    /\ get_semitone(from_key) = 3
    /\ get_semitone(to_key) = 6
    /\ shift_semitones = 3

(***************************************************************************)
(* Chord list specification: one call of parse_chordpro(content) or of     *)
(* extract_chords(content) on the same text.                               *)
(***************************************************************************)
MaxSameChordsPieces == 4

\* "[G]", "[D]", "[G", "]", "la", "{c}", newline
SameChordsPieces ==
    {<<"[", "G", "]">>,
     <<"[", "D", "]">>,
     <<"[", "G">>,
     <<"]">>,
     <<"l", "a">>,
     <<"{", "c", "}">>,
     <<"\n">>}

SameChordsInit ==
    /\ content \in TextsOf(SameChordsPieces, MaxSameChordsPieces)
    /\ transposed = None /\ restored = None /\ parsed = None /\ detected = None
    /\ text_pc = "call"
    /\ PairIdle
    /\ FlowIdle
    /\ OtherIdle

SameChordsSpec == SameChordsInit /\ [][ParseChordpro \/ ExtractChords]_vars

(***************************************************************************)
(* C28: extract_chords and the raw_chords of parse_chordpro.               *)
(***************************************************************************)
\* number of segments with a chord over all the ParsedLines
RECURSIVE ChordSegments(_)
ChordSegments(lines) ==
    IF lines = <<>> THEN 0
    ELSE Cardinality({j \in 1..Len(Head(lines).segments) :
                         Truthy(Head(lines).segments[j].chord)})
         + ChordSegments(Tail(lines))

\* every chord bracket of the text lies within one line, and no line that
\* holds a directive holds a chord bracket
ChordsOnChordLinesOnly(text) ==
    /\ \A k \in 1..Len(CHORD_PATTERN_findall(text)) :
           Find(CHORD_PATTERN_findall(text)[k], "\n", 1) = 0
    /\ ChordsOfLines(Keep(split(text, "\n"), TRUE)) = <<>>

RECURSIVE ChordsOfSegments(_)
ChordsOfSegments(segments) ==
    IF segments = <<>> THEN <<>>
    ELSE (IF Truthy(Head(segments).chord) THEN <<Head(segments).chord>> ELSE <<>>)
         \o ChordsOfSegments(Tail(segments))

\* C29: in every ParsedLine only the first segment may be chord-less; every
\* later segment has a chord, a chord-less first segment has a non-empty
\* lyric, and the chords of the segments are, in order, the chords of the
\* source line.
C29_OnlyFirstSegmentChordless ==
    text_pc = "parsed" =>
        LET plain == Keep(split(content, "\n"), FALSE)
        IN  \A k \in 1..Len(parsed.lines) :
                LET segs == parsed.lines[k].segments
                IN  /\ \A j \in 2..Len(segs) : Truthy(segs[j].chord)
                    /\ (segs # <<>> /\ segs[1].chord = None) => segs[1].lyric # <<>>
                    /\ ChordsOfSegments(segs) = CHORD_PATTERN_findall(plain[k])

\* "la[G][Am7]": a chord-less segment "la", then G and Am7
C29_Witness ==
    /\ text_pc = "parsed"
    /\ content = <<"l", "a", "[", "G", "]", "[", "A", "m", "7", "]">>
    /\ parsed.lines = <<ParsedLine(<<Segment(None, <<"l", "a">>),
                                     Segment(<<"G">>, <<>>),
                                     Segment(<<"A", "m", "7">>, <<>>)>>)>>

(***************************************************************************)
(* C30: spelling of the transposed document.                               *)
(***************************************************************************)
SharpSpelled == {<<"C", "#">>, <<"D", "#">>, <<"F", "#">>, <<"G", "#">>, <<"A", "#">>}

FlatSpelled == {<<"D", "b">>, <<"E", "b">>, <<"G", "b">>, <<"A", "b">>, <<"B", "b">>}

\* the roots and basses of the chords of a text, as parse_chord reads them
RootsAndBasses(text) ==
    LET chords == CHORD_PATTERN_findall(text)
    IN  {parse_chord(chords[k]).root : k \in 1..Len(chords)}
            \cup {parse_chord(chords[k]).bass : k \in 1..Len(chords)}

\* C30: the spelling of a transposed document follows the target key alone:
\* after transpose_chordpro(text, from_key, to_key) no root or bass of a chord
\* of the output is sharp-spelled if to_key is in the flat-key set, and none
\* is flat-spelled if it is not, for every from_key.
C30_SpellingFollowsTargetKey ==
    text_pc = "transposed" =>
        IF to_key \in FLAT_KEYS
        THEN RootsAndBasses(transposed) \cap SharpSpelled = {}
        ELSE RootsAndBasses(transposed) \cap FlatSpelled = {}

====
